---- MODULE Spec2Model ----
(***************************************************************************)
(* Model of the Clabcraw GameClient (lib/game.js), its error classifier    *)
(* (lib/errors.js), its signer (lib/signer.js) and its state normaliser    *)
(* (lib/schema.js).                                                        *)
(*                                                                         *)
(* One client, one caller.  Every `await` of the JavaScript is a step      *)
(* boundary: a transport call (fetch), a sleep, the decide callback.  The  *)
(* code between two awaits is one atomic step.  The server and the network *)
(* are the environment: the session goes active -> finished -> purged at   *)
(* any time, and any transport call may fail or be answered by an error    *)
(* status.                                                                 *)
(***************************************************************************)
EXTENDS Integers, Sequences, FiniteSets, TLC

VARIABLES
  client,   \* the GameClient: the fields its constructor sets
  now,      \* wall clock, Date.now(), in ms
  srv,      \* the agent and its session on the server: "queued", "idle",
            \* "paused", "active", "finished" or "purged"
  op,       \* the caller's current operation on the client
  req,      \* the activation of GameClient._request, if any
  wire,     \* history: every transport call made, in order
  slept,    \* history: every sleep of _request, in order
  playLog,  \* history: the events of the playUntilDone and waitForMatch
            \* calls, in order
  nreq,     \* number of _request activations so far
  faults    \* number of failures the environment may still inject

vars == <<client, now, srv, op, req, wire, slept, playLog, nreq, faults>>

----------------------------------------------------------------------------
(* Bounds of the model.                                                    *)

MaxIter == 2         \* iterations of one playUntilDone loop
MaxFaults == 4       \* failures injected into one call of an API method
MaxPlayFaults == 1   \* failures injected into one playUntilDone call
MaxMatchFaults == 1  \* failures injected into one waitForMatch call
MaxRematchWire == 3  \* transport calls of a waitForMatch call and its re-invocations
MaxFaultyWire == 4   \* transport calls of a waitForMatch call on a failing network
MaxClaims == 2       \* calls of claim() by one caller
MaxCallFaults == 1   \* injected outcomes met by one call of any method
MaxCallsWire == 3    \* transport calls of one call of any method

(* Program constants.                                                       *)

DEFAULT_POLL_MS == 1000
MAX_RETRIES == 3
BACKOFF_BASE_MS == 500
BACKOFF_CAP_MS == 10000
DEFAULT_RETRY_AFTER_MS == 5000
PAUSED_RETRY_AFTER_MS == 30000
NETWORK_RETRY_AFTER_MS == 3000
MATCH_POLL_MS == 3000

----------------------------------------------------------------------------
(* Plain data.                                                              *)

Null == [kind |-> "null"]

Max(a, b) == IF a >= b THEN a ELSE b
Min(a, b) == IF a <= b THEN a ELSE b

RECURSIVE Pow2(_)
Pow2(n) == IF n = 0 THEN 1 ELSE 2 * Pow2(n - 1)

(* An address is a string of hexadecimal digits in checksum (mixed) case;  *)
(* it is kept as a sequence of characters so that case conversion is real. *)
ToLowerChar(c) == CASE c = "A" -> "a" [] c = "B" -> "b" [] OTHER -> c
toLowerCase(s) == [i \in DOMAIN s |-> ToLowerChar(s[i])]

SelfAddress == <<"A", "b">>
OpponentAddress == <<"b", "A">>

(* The client as its constructor leaves it: this._apiUrl without a       *)
(* trailing slash, this._account made from the private key.                *)
NewGameClient ==
  [apiUrl |-> "https://clabcraw.sh", account |-> [address |-> SelfAddress]]

(* this._account *)
Account == client.account

GameId == "g1"
OtherGameId == "g2"

(* The move a decide callback may return, and the payload of a state read. *)
(* A payload is the list of its key/value pairs in insertion order.        *)
StatePayload == << <<"action", "state">> >>
Moves == { << <<"action", "check">> >>,
           << <<"amount", 2>>, <<"action", "raise">> >> }
(* null, as returned by a decide callback that has no move to make *)
NoMove == <<>>

----------------------------------------------------------------------------
(* lib/signer.js                                                            *)

(* a.localeCompare(b) < 0 on the keys a payload can have *)
KeyRank(k) ==
  CASE k = "a" -> 0 [] k = "action" -> 1 [] k = "amount" -> 2 [] k = "b" -> 3 [] OTHER -> 4

RECURSIVE SortPairs(_)
SortPairs(ps) ==
  IF Len(ps) <= 1 THEN ps
  ELSE LET m == CHOOSE i \in 1..Len(ps) :
                  \A j \in 1..Len(ps) :
                     \/ KeyRank(ps[i][1]) < KeyRank(ps[j][1])
                     \/ KeyRank(ps[i][1]) = KeyRank(ps[j][1]) /\ i <= j
           rest == [k \in 1..(Len(ps) - 1) |-> IF k < m THEN ps[k] ELSE ps[k + 1]]
       IN  <<ps[m]>> \o SortPairs(rest)

(* JSON.stringify of an object without an indent argument: the tokens of   *)
(* the text, the pairs in the order the object holds them                  *)
RECURSIVE Members(_)
Members(ps) ==
  IF ps = <<>> THEN <<>>
  ELSE <<ps[1][1], ":", ps[1][2]>>
       \o (IF Len(ps) = 1 THEN <<>> ELSE <<",">> \o Members(Tail(ps)))
stringify(ps) == <<"{">> \o Members(ps) \o <<"}">>

(* mutant: the payload is encoded in the order it was built *)
canonicalizeUnsorted(obj) == stringify(obj)

(* canonical JSON: the pairs in ascending key order, compactly encoded *)
canonicalize(obj) == stringify(SortPairs(obj))

(* mutant: the timestamp is put before the payload *)
buildMessageTimestampFirst(gameId, payload, timestamp) ==
  <<gameId, ":", timestamp, ":", canonicalize(payload)>>

(* "{gameId}:{canonicalJson}:{timestamp}" *)
buildMessage(gameId, payload, timestamp) ==
  <<gameId, ":", canonicalize(payload), ":", timestamp>>

(* account.signMessage: deterministic in the key and the message *)
signMessage(account, message) == [by |-> account.address, over |-> message]

signAction(account, gameId, actionBody, timestamp) ==
  signMessage(account, buildMessage(gameId, actionBody, timestamp))

signState(account, gameId, timestamp) ==
  signAction(account, gameId, StatePayload, timestamp)

(* String(Math.floor(Date.now() / 1000)): the decimal digits, most         *)
(* significant first                                                       *)
RECURSIVE Digits(_)
Digits(n) == IF n < 10 THEN <<n>> ELSE Digits(n \div 10) \o <<n % 10>>

Timestamp(t) == Digits(t \div 1000)

----------------------------------------------------------------------------
(* lib/errors.js                                                            *)

ClabcrawError(code, retriable, retryAfterMs) ==
  [code |-> code, retriable |-> retriable, retryAfterMs |-> retryAfterMs]

PausedError(retryAfterMs) == ClabcrawError("PAUSED", TRUE, retryAfterMs)
InsufficientFundsError == ClabcrawError("INSUFFICIENT_FUNDS", FALSE, DEFAULT_RETRY_AFTER_MS)
InvalidActionError == ClabcrawError("INVALID_ACTION", FALSE, DEFAULT_RETRY_AFTER_MS)
GameNotFoundError == ClabcrawError("GAME_NOT_FOUND", FALSE, DEFAULT_RETRY_AFTER_MS)
AuthError == ClabcrawError("AUTH_ERROR", FALSE, DEFAULT_RETRY_AFTER_MS)
NetworkError == ClabcrawError("NETWORK_ERROR", TRUE, NETWORK_RETRY_AFTER_MS)

(* err.code of whatever was thrown: undefined for an error that is not a   *)
(* ClabcrawError                                                           *)
CodeOf(err) == IF "code" \in DOMAIN err THEN err.code ELSE "undefined"

(* A Retry-After header: absent, integer seconds, an HTTP-date (as the ms  *)
(* it denotes) or text that is neither.                                    *)
NoHeader == [kind |-> "absent", val |-> 0]
IntHeader(n) == [kind |-> "int", val |-> n]
DateHeader(d) == [kind |-> "date", val |-> d]
JunkHeader == [kind |-> "junk", val |-> 0]

(* mutant: the seconds of the header are taken as milliseconds *)
parseRetryAfterSecondsAsMs(header, t) ==
  CASE header.kind = "absent" -> DEFAULT_RETRY_AFTER_MS
    [] header.kind = "int"    -> header.val
    [] header.kind = "date"   -> Max(0, header.val - t)
    [] OTHER                  -> DEFAULT_RETRY_AFTER_MS

parseRetryAfter(header, t) ==
  CASE header.kind = "absent" -> DEFAULT_RETRY_AFTER_MS
    [] header.kind = "int"    -> header.val * 1000
    [] header.kind = "date"   -> Max(0, header.val - t)
    [] OTHER                  -> DEFAULT_RETRY_AFTER_MS

(* mutant: the fallback is retriable only above status 500 *)
fromResponseAbove500(response, gameId, t) ==
  LET retryAfterMs == parseRetryAfter(response.retryAfter, t) IN
  CASE response.status = 401 -> AuthError
    [] response.status = 402 -> InsufficientFundsError
    [] response.status = 404 -> GameNotFoundError
    [] response.status = 422 -> InvalidActionError
    [] response.status = 503 -> PausedError(retryAfterMs)
    [] OTHER -> ClabcrawError("HTTP_ERROR", response.status > 500, retryAfterMs)

fromResponse(response, gameId, t) ==
  LET retryAfterMs == parseRetryAfter(response.retryAfter, t) IN
  CASE response.status = 401 -> AuthError
    [] response.status = 402 -> InsufficientFundsError
    [] response.status = 404 -> GameNotFoundError
    [] response.status = 422 -> InvalidActionError
    [] response.status = 503 -> PausedError(retryAfterMs)
    [] OTHER -> ClabcrawError("HTTP_ERROR", response.status >= 500, retryAfterMs)

----------------------------------------------------------------------------
(* lib/schema.js                                                            *)

(* Response bodies.  A body is null, a non-object (a JSON string) or an    *)
(* object; of a state object only the fields the client reads are kept.    *)
StringBody == [kind |-> "string"]
(* a body that is not JSON (an HTML error page, a cut-off document)        *)
Unparseable == [kind |-> "unparseable"]
(* what response.json() rejects with for such a body: a plain SyntaxError, *)
(* which has no code, retriable or retryAfterMs property                   *)
SyntaxError == [name |-> "SyntaxError"]
(* the body of a 503 the server marks as transient (a payment settlement   *)
(* that is pending): { retryable: true, ... }                              *)
TransientBody == [kind |-> "object", retryable |-> TRUE]
UnchangedBody == [kind |-> "object", unchanged |-> TRUE, game_status |-> "none"]
RawState(status) == [kind |-> "object", unchanged |-> FALSE, game_status |-> status]

(* mutant: the unchanged signal is not recognised *)
normalizeStateNeverUnchanged(raw) ==
  [unchanged  |-> FALSE,
   isFinished |-> raw.kind = "object" /\ raw.game_status \in {"finished", "complete"}]

normalizeState(raw) ==
  IF raw.kind # "object" THEN [unchanged |-> TRUE]
  ELSE IF raw.unchanged THEN [unchanged |-> TRUE]
  ELSE [unchanged  |-> FALSE,
        isFinished |-> raw.game_status = "finished" \/ raw.game_status = "complete"]

(* The historical result of a game (GET /v1/games/:id/result).             *)
NoWinner == <<>>
Winners == {SelfAddress, toLowerCase(SelfAddress), OpponentAddress, NoWinner}
Results == [kind : {"object"}, outcome : {"draw", "knockout"}, winner : Winners]

----------------------------------------------------------------------------
(* The environment: the network and the server.                            *)

Fault == [kind |-> "fault"]
Response(status, retryAfter, body) ==
  [kind |-> "response", status |-> status, retryAfter |-> retryAfter, body |-> body]

(* Failures the network or the server may produce at any time: a           *)
(* connection fault, a rejected signature, a server error that tells when  *)
(* to retry, a pause that does not, a pause marked transient that says     *)
(* "now", and a success status with a body that is not JSON.               *)
Injected ==
  {Fault,
   Response(401, NoHeader, Null),
   Response(500, IntHeader(2), Null),
   Response(503, NoHeader, Null),
   Response(503, IntHeader(0), TransientBody),
   Response(200, NoHeader, Unparseable)}

(* The body of GET /v1/agent/:address/status.  While the agent is queued   *)
(* the server may send the list of games or leave it out.                  *)
StatusBody(status, games) == [kind |-> "object", status |-> status, active_games |-> games]
QueuedBody == [kind |-> "object", status |-> "queued"]
Game(id) == [game_id |-> id]

(* the body of a join that was accepted *)
JoinBody == [kind |-> "object", status |-> "queued", queue_position |-> 1]

(* What the server answers from the state of the session. *)
Replies(api, s) ==
  CASE api = "join" ->
         {Response(200, NoHeader, JoinBody), Response(402, NoHeader, Null)}
    [] api = "status" ->
         IF s = "queued"
           THEN {Response(200, NoHeader, QueuedBody),
                 Response(200, NoHeader, StatusBody("active", <<>>)),
                 Response(200, NoHeader, StatusBody("matching", <<>>))}
         ELSE IF s = "active"
           THEN {Response(200, NoHeader, StatusBody("active", <<Game(GameId)>>)),
                 Response(200, NoHeader,
                          StatusBody("active", <<Game(OtherGameId), Game(GameId)>>))}
         ELSE IF s = "paused"
           THEN {Response(200, NoHeader, StatusBody("paused", <<>>))}
         ELSE {Response(200, NoHeader, StatusBody("idle", <<>>))}
    [] api = "state" ->
         IF s = "active"
           THEN {Response(200, NoHeader, RawState("active")),
                 Response(200, NoHeader, UnchangedBody),
                 Response(200, NoHeader, Null),
                 Response(200, NoHeader, StringBody),
                 Response(304, NoHeader, Null)}
         ELSE IF s = "finished"
           THEN {Response(200, NoHeader, RawState("finished")),
                 Response(200, NoHeader, RawState("complete"))}
         ELSE {Response(404, NoHeader, Null)}
    [] api = "action" ->
         IF s = "active"
           THEN {Response(200, NoHeader, RawState("active")),
                 Response(200, NoHeader, RawState("finished"))}
         ELSE IF s = "finished"
           THEN {Response(422, NoHeader, Null)}
         ELSE {Response(404, NoHeader, Null)}
    [] OTHER ->
         IF s = "active"
           THEN {Response(404, NoHeader, Null)}
           ELSE {Response(200, NoHeader, r) : r \in Results}

----------------------------------------------------------------------------
(* lib/game.js: GameClient._request                                         *)

(* mutant: the delay grows linearly *)
backoffLinear(attempt) == Min(BACKOFF_BASE_MS * (attempt + 1), BACKOFF_CAP_MS)

backoff(attempt) == Min(BACKOFF_BASE_MS * Pow2(attempt), BACKOFF_CAP_MS)

(* no header set: no signature, and the empty text for the other two *)
NoAuth == [signed |-> FALSE, x_signature |-> Null, x_timestamp |-> <<>>, x_signer |-> <<>>]

(* body = null: nothing is sent, against the pairs of a payload *)
NoBody == <<>>
AuthHeaders(signature, timestamp, signer) ==
  [signed |-> TRUE, x_signature |-> signature, x_timestamp |-> timestamp, x_signer |-> signer]

IdleRequest ==
  [pc |-> "none", id |-> 0, api |-> "none", attempt |-> 0, headers |-> NoAuth,
   body |-> NoBody, delay |-> 0, val |-> Null]

(* Entry of _request: url, headers and init are built once, before the loop. *)
StartRequest(api, headers, body) ==
  [pc |-> "fetch", id |-> nreq + 1, api |-> api, attempt |-> 0, headers |-> headers,
   body |-> body, delay |-> 0, val |-> Null]

(* mutant: only the first attempt carries the headers *)
AttemptHeadersFirstOnly(r, attempt, t) == IF attempt = 0 THEN r.headers ELSE NoAuth

(* the headers attempt number `attempt` of activation r is sent with *)
AttemptHeaders(r, attempt, t) == r.headers

(* mutant: 304 is not told apart from the other statuses *)
IsNotModifiedNever(status) == FALSE

(* the test of response.status against 304 *)
IsNotModified(status) == status = 304

(* response.ok *)
IsOk(status) == status >= 200 /\ status <= 299

(* what a call of _request evaluates to when its loop runs out *)
Undefined == [kind |-> "undefined"]

(* mutant: the catch branch retries on the last attempt too *)
RetryFaultOffByOne(attempt) == attempt <= MAX_RETRIES

(* mutant: a connection fault is never retried *)
RetryFaultNever(attempt) == FALSE

(* the catch branch: is a connection fault retried? *)
RetryFault(attempt) == attempt < MAX_RETRIES

(* mutant: the retriable flag of the error is not consulted *)
RetryErrorIgnoringFlag(err, attempt) == attempt < MAX_RETRIES

(* mutant: a retriable error is retried on the last attempt too *)
RetryErrorOffByOne(err, attempt) == err.retriable /\ attempt <= MAX_RETRIES

(* is a classified error retried? *)
RetryError(err, attempt) == err.retriable /\ attempt < MAX_RETRIES

(* err.retryAfterMs || backoff(attempt) *)
RetryDelay(err, attempt) ==
  IF err.retryAfterMs # 0 THEN err.retryAfterMs ELSE backoff(attempt)

(* One pass of the loop body, from the settled transport call to the next  *)
(* suspension, return or throw; t is the time the response is read.        *)
Settle(r, out, t) ==
  IF out.kind = "fault"
    THEN IF RetryFault(r.attempt)
           THEN [r EXCEPT !.pc = "sleep", !.delay = backoff(r.attempt), !.val = NetworkError]
           ELSE [r EXCEPT !.pc = "failed", !.val = NetworkError]
  ELSE IF IsNotModified(out.status)
    THEN [r EXCEPT !.pc = "returned", !.val = UnchangedBody]
  ELSE IF IsOk(out.status)
    THEN IF out.body.kind = "unparseable"
           THEN [r EXCEPT !.pc = "failed", !.val = SyntaxError]
           ELSE [r EXCEPT !.pc = "returned", !.val = out.body]
  ELSE LET err == fromResponse(out, GameId, t) IN
       IF RetryError(err, r.attempt)
         THEN [r EXCEPT !.pc = "sleep", !.delay = RetryDelay(err, r.attempt), !.val = err]
         ELSE [r EXCEPT !.pc = "failed", !.val = err]

(* await fetchFn(url, init) and the code after it.  The round trip takes   *)
(* no time on the model's clock: time passes in the sleeps.                *)
FetchFrom(injected) ==
  /\ req.pc = "fetch"
  /\ \E out \in Replies(req.api, srv) \cup (IF faults > 0 THEN injected ELSE {}) :
       /\ now' = now
       /\ wire' = Append(wire, [rid |-> req.id, api |-> req.api, attempt |-> req.attempt,
                                headers |-> AttemptHeaders(req, req.attempt, now),
                                at |-> now, out |-> out])
       /\ req' = Settle(req, out, now')
       /\ slept' = IF req'.pc = "sleep"
                     THEN Append(slept, [rid |-> req.id, attempt |-> req.attempt,
                                         ms |-> req'.delay])
                     ELSE slept
       /\ faults' = IF out \in injected THEN faults - 1 ELSE faults
  /\ UNCHANGED <<client, srv, op, playLog, nreq>>

Fetch == FetchFrom(Injected)

(* mutant: a retry signs in again with another account *)
SleepRebuildingAccount ==
  /\ req.pc = "sleep"
  /\ now' = now + Max(req.delay, 0)
  /\ req' = IF req.attempt + 1 <= MAX_RETRIES
              THEN [req EXCEPT !.pc = "fetch", !.attempt = @ + 1]
              ELSE [req EXCEPT !.pc = "returned", !.attempt = @ + 1, !.val = Undefined]
  /\ client' = [client EXCEPT !.account = [address |-> OpponentAddress]]
  /\ UNCHANGED <<srv, op, wire, slept, playLog, nreq, faults>>

(* await sleep(ms), then `continue`: attempt++ and the loop test *)
Sleep ==
  /\ req.pc = "sleep"
  /\ now' = now + Max(req.delay, 0)
  /\ req' = IF req.attempt + 1 <= MAX_RETRIES
              THEN [req EXCEPT !.pc = "fetch", !.attempt = @ + 1]
              ELSE [req EXCEPT !.pc = "returned", !.attempt = @ + 1, !.val = Undefined]
  /\ UNCHANGED <<client, srv, op, wire, slept, playLog, nreq, faults>>

----------------------------------------------------------------------------
(* lib/game.js: getState, submitAction, getResult                           *)

SignedHeaders(payload, t) ==
  LET timestamp == Timestamp(t) IN
  AuthHeaders(signAction(Account, GameId, payload, timestamp), timestamp, Account.address)

GetStateRequest(t) ==
  LET timestamp == Timestamp(t) IN
  StartRequest("state",
               AuthHeaders(signState(Account, GameId, timestamp), timestamp, Account.address),
               NoBody)

SubmitActionRequest(actionBody, t) ==
  StartRequest("action", SignedHeaders(actionBody, t), actionBody)

GetResultRequest == StartRequest("result", NoAuth, NoBody)

Settled == req.pc = "returned" \/ req.pc = "failed"
CallerFree == op.pc = "idle"

(* val is the value in hand (a snapshot, a result, the error thrown),     *)
(* action the move the decide callback returned last, timeoutMs and        *)
(* deadline those of waitForMatch; calledAt and since tell when a          *)
(* waitForMatch call was made and how many requests had been made before   *)
NewOp(name, pc) ==
  [name |-> name, pc |-> pc, val |-> Null, iter |-> 0, pollMs |-> 0, action |-> NoMove,
   timeoutMs |-> 0, deadline |-> 0, calledAt |-> 0, since |-> 0]

CallGetState ==
  /\ CallerFree
  /\ op' = NewOp("getState", "request")
  /\ req' = GetStateRequest(now)
  /\ nreq' = nreq + 1
  /\ UNCHANGED <<client, now, srv, wire, slept, playLog, faults>>

CallSubmitAction ==
  /\ CallerFree
  /\ \E a \in Moves :
       /\ op' = NewOp("submitAction", "request")
       /\ req' = SubmitActionRequest(a, now)
  /\ nreq' = nreq + 1
  /\ UNCHANGED <<client, now, srv, wire, slept, playLog, faults>>

CallGetResult ==
  /\ CallerFree
  /\ op' = NewOp("getResult", "request")
  /\ req' = GetResultRequest
  /\ nreq' = nreq + 1
  /\ UNCHANGED <<client, now, srv, wire, slept, playLog, faults>>

(* the value getState / submitAction / getResult gives for a settled _request *)
(* mutant: whatever _request threw is reported as a network error *)
ApiValueAsNetworkError(name, r) ==
  IF r.pc = "failed" THEN NetworkError
  ELSE IF name = "getResult" THEN r.val
  ELSE normalizeState(r.val)

ApiValue(name, r) ==
  IF r.pc = "failed" THEN r.val
  ELSE IF name = "getResult" THEN r.val
  ELSE normalizeState(r.val)

(* _request settles and the method returns or throws to the caller *)
ApiDone ==
  /\ op.name \in {"getState", "submitAction", "getResult"}
  /\ op.pc = "request"
  /\ Settled
  /\ op' = [op EXCEPT !.pc = req.pc, !.val = ApiValue(op.name, req)]
  /\ UNCHANGED <<client, now, srv, req, wire, slept, playLog, nreq, faults>>

----------------------------------------------------------------------------
(* lib/game.js: playUntilDone                                               *)

PollChoices == {DEFAULT_POLL_MS}

Truthy(v) == v.kind # "null"
Field(v, f, absent) == IF v.kind = "object" /\ f \in DOMAIN v THEN v[f] ELSE absent

(* mutant: the winner is compared with the address as written *)
YouWonCaseSensitive(result, address) ==
  Field(result, "winner", NoWinner) # NoWinner /\ Field(result, "winner", NoWinner) = address

(* result?.winner?.toLowerCase() compared with this.address.toLowerCase() *)
YouWon(result, address) ==
  LET winner == Field(result, "winner", NoWinner) IN
  winner # NoWinner /\ toLowerCase(winner) = toLowerCase(address)

(* the snapshot the GAME_NOT_FOUND branch returns; result is null when the *)
(* result fetch failed                                                     *)
SyntheticState(result, address) ==
  LET youWon == YouWon(result, address)
      isDraw == Field(result, "outcome", "none") = "draw"
      outcome == Field(result, "outcome", "none")
  IN [isFinished |-> TRUE,
      result  |-> IF isDraw THEN "draw"
                  ELSE IF Truthy(result) THEN (IF youWon THEN "win" ELSE "loss")
                  ELSE "unknown",
      outcome |-> IF outcome = "none" THEN "unknown" ELSE outcome]

Logged(ev) == Append(playLog, ev)

CallPlayUntilDone ==
  /\ CallerFree
  /\ \E p \in PollChoices :
       op' = [NewOp("playUntilDone", "getState") EXCEPT !.iter = 1, !.pollMs = p]
  /\ req' = GetStateRequest(now)
  /\ playLog' = Logged("getState")
  /\ nreq' = nreq + 1
  /\ UNCHANGED <<client, now, srv, wire, slept, faults>>

(* getState settles: the catch branch, or the tests on the snapshot *)
PlayStateDone ==
  /\ op.name = "playUntilDone" /\ op.pc = "getState"
  /\ Settled
  /\ IF req.pc = "failed"
       THEN IF CodeOf(req.val) = "GAME_NOT_FOUND"
              THEN /\ op' = [op EXCEPT !.pc = "getResult"]
                   /\ req' = GetResultRequest
                   /\ nreq' = nreq + 1
                   /\ playLog' = Logged("getResult")
              ELSE /\ op' = [op EXCEPT !.pc = "failed", !.val = req.val]
                   /\ req' = IdleRequest
                   /\ UNCHANGED <<client, nreq, playLog>>
       ELSE LET state == normalizeState(req.val) IN
            /\ req' = IdleRequest
            /\ nreq' = nreq
            /\ IF state.unchanged
                 THEN /\ op' = [op EXCEPT !.pc = "sleep"]
                      /\ playLog' = Logged("sleep")
                 ELSE IF state.isFinished
                   THEN /\ op' = [op EXCEPT !.pc = "returned", !.val = state]
                        /\ playLog' = playLog
                   ELSE /\ op' = [op EXCEPT !.pc = "decide", !.val = state]
                        /\ playLog' = Logged("decide")
  /\ UNCHANGED <<client, now, srv, wire, slept, faults>>

(* the result fetch of the catch branch settles; .catch(() => null) *)
(* mutant: an error of the result fetch is thrown on *)
PlayResultDoneRethrows ==
  /\ op.name = "playUntilDone" /\ op.pc = "getResult"
  /\ Settled
  /\ op' = IF req.pc = "returned"
             THEN [op EXCEPT !.pc = "returned",
                             !.val = SyntheticState(req.val, Account.address)]
             ELSE [op EXCEPT !.pc = "failed", !.val = req.val]
  /\ req' = IdleRequest
  /\ UNCHANGED <<client, now, srv, wire, slept, playLog, nreq, faults>>

PlayResultDone ==
  /\ op.name = "playUntilDone" /\ op.pc = "getResult"
  /\ Settled
  /\ LET result == IF req.pc = "returned" THEN req.val ELSE Null IN
     op' = [op EXCEPT !.pc = "returned", !.val = SyntheticState(result, Account.address)]
  /\ req' = IdleRequest
  /\ UNCHANGED <<client, now, srv, wire, slept, playLog, nreq, faults>>

(* mutant: whatever decide returns is submitted *)
ShouldSubmitAlways(action) == TRUE

(* if (action) *)
ShouldSubmit(action) == action # NoMove

(* the decide callback resolves with a move or with null *)
PlayDecide ==
  /\ op.name = "playUntilDone" /\ op.pc = "decide"
  /\ \E action \in Moves \cup {NoMove} :
       IF ShouldSubmit(action)
         THEN /\ op' = [op EXCEPT !.pc = "submitAction", !.action = action]
              /\ req' = SubmitActionRequest(action, now)
              /\ nreq' = nreq + 1
              /\ playLog' = Logged("submitAction")
         ELSE /\ op' = [op EXCEPT !.pc = "sleep", !.action = action]
              /\ playLog' = Logged("sleep")
              /\ UNCHANGED <<client, req, nreq>>
  /\ UNCHANGED <<client, now, srv, wire, slept, faults>>

(* submitAction settles: its snapshot is dropped, an error propagates *)
(* mutant: a finished snapshot of the submit ends the call *)
PlaySubmitDoneUsingSnapshot ==
  /\ op.name = "playUntilDone" /\ op.pc = "submitAction"
  /\ Settled
  /\ IF req.pc = "failed"
       THEN /\ op' = [op EXCEPT !.pc = "failed", !.val = req.val]
            /\ playLog' = playLog
       ELSE IF normalizeState(req.val).isFinished
         THEN /\ op' = [op EXCEPT !.pc = "returned", !.val = normalizeState(req.val)]
              /\ playLog' = playLog
         ELSE /\ op' = [op EXCEPT !.pc = "sleep"]
              /\ playLog' = Logged("sleep")
  /\ req' = IdleRequest
  /\ UNCHANGED <<client, now, srv, wire, slept, nreq, faults>>

(* mutant: the next state read is sent without awaiting the poll sleep *)
PlaySubmitDonePollAtOnce ==
  /\ op.name = "playUntilDone" /\ op.pc = "submitAction"
  /\ Settled
  /\ IF req.pc = "failed"
       THEN /\ op' = [op EXCEPT !.pc = "failed", !.val = req.val]
            /\ playLog' = playLog
            /\ req' = IdleRequest
       ELSE /\ op' = [op EXCEPT !.pc = "sleep"]
            /\ playLog' = Logged("sleep")
            /\ req' = GetStateRequest(now)
  /\ UNCHANGED <<client, now, srv, wire, slept, nreq, faults>>

PlaySubmitDone ==
  /\ op.name = "playUntilDone" /\ op.pc = "submitAction"
  /\ Settled
  /\ IF req.pc = "failed"
       THEN /\ op' = [op EXCEPT !.pc = "failed", !.val = req.val]
            /\ playLog' = playLog
       ELSE /\ op' = [op EXCEPT !.pc = "sleep"]
            /\ playLog' = Logged("sleep")
  /\ req' = IdleRequest
  /\ UNCHANGED <<client, now, srv, wire, slept, nreq, faults>>

(* await sleep(pollMs), then the next iteration reads the state *)
PlaySleep ==
  /\ op.name = "playUntilDone" /\ op.pc = "sleep"
  /\ op.iter < MaxIter
  /\ now' = now + op.pollMs
  /\ op' = [op EXCEPT !.pc = "getState", !.iter = @ + 1]
  /\ req' = GetStateRequest(now')
  /\ nreq' = nreq + 1
  /\ playLog' = Logged("getState")
  /\ UNCHANGED <<client, srv, wire, slept, faults>>

----------------------------------------------------------------------------
(* The server ends the game, and later purges the finished session.        *)

ServerAdvance ==
  /\ srv \in {"active", "finished"}
  /\ srv' = IF srv = "active" THEN "finished" ELSE "purged"
  /\ UNCHANGED <<client, now, op, req, wire, slept, playLog, nreq, faults>>

----------------------------------------------------------------------------

StartClock == 600

InitWith(budget) ==
  /\ client = NewGameClient
  /\ now = StartClock
  /\ srv = "active"
  /\ op = NewOp("none", "idle")
  /\ req = IdleRequest
  /\ wire = <<>>
  /\ slept = <<>>
  /\ playLog = <<>>
  /\ nreq = 0
  /\ faults = budget

(* One playUntilDone call on a session the client is playing. *)
Init == InitWith(MaxPlayFaults)

Next ==
  \/ CallPlayUntilDone
  \/ Fetch
  \/ Sleep
  \/ PlayStateDone
  \/ PlayResultDone
  \/ PlayDecide
  \/ PlaySubmitDone
  \/ PlaySleep
  \/ ServerAdvance

Spec == Init /\ [][Next]_vars

(* The same call when every round trip, every sleep and every callback    *)
(* that was started also completes; the server advances when it will.      *)
(* Every step moves the loop, the request or the history of the           *)
(* transport: fairness is asked of the steps as seen there.                *)
position == <<op.pc, req.pc, Len(wire)>>

PlayFairness ==
  /\ WF_position(CallPlayUntilDone)
  /\ WF_position(Fetch)
  /\ WF_position(Sleep)
  /\ WF_position(PlayStateDone)
  /\ WF_position(PlayResultDone)
  /\ WF_position(PlayDecide)
  /\ WF_position(PlaySubmitDone)
  /\ WF_position(PlaySleep)

SpecPlayFair == Init /\ [][Next]_vars /\ PlayFairness

(* One call of getState, submitAction or getResult. *)
InitRequest == InitWith(MaxFaults)

NextRequest ==
  \/ CallGetState
  \/ CallSubmitAction
  \/ CallGetResult
  \/ Fetch
  \/ Sleep
  \/ ApiDone
  \/ ServerAdvance

SpecRequest == InitRequest /\ [][NextRequest]_vars

(* The same call against a server or a proxy whose retriable answers carry *)
(* a Retry-After of every kind: none, zero seconds, a date already past, a *)
(* number below zero, text that is neither.                                *)
Hostile ==
  {Fault,
   Response(500, NoHeader, Null),
   Response(500, IntHeader(0), Null),
   Response(500, IntHeader(-1), Null),
   Response(500, DateHeader(StartClock - 1000), Null),
   Response(503, JunkHeader, TransientBody)}

NextRetry ==
  \/ CallGetState
  \/ CallSubmitAction
  \/ CallGetResult
  \/ FetchFrom(Hostile)
  \/ Sleep
  \/ ApiDone
  \/ ServerAdvance

SpecRetry == InitRequest /\ [][NextRetry]_vars

----------------------------------------------------------------------------
(* lib/game.js: getStatus, waitForMatch                                     *)

GetStatusRequest == StartRequest("status", NoAuth, NoBody)

(* what getStatus makes of the body: data.status, data.active_games || [] *)
getStatus(data) ==
  [status |-> data.status,
   activeGames |-> IF "active_games" \in DOMAIN data THEN data.active_games ELSE <<>>]

(* the options a call of waitForMatch is made with; the defaults (a        *)
(* timeout of 240 000 ms, a poll every MATCH_POLL_MS) give 80 polls, the   *)
(* choices here a few                                                      *)
MatchTimeoutChoices == {0, 4000, 5000}
MatchPollChoices == {1000, MATCH_POLL_MS}

(* mutant: a poll is still started at the deadline itself *)
BeforeDeadlineInclusive(t, deadline) == t <= deadline

(* the loop test: Date.now() < deadline *)
BeforeDeadline(t, deadline) == t < deadline

(* mutant: one game in the list is not enough *)
IsMatchedSeveralGames(status, activeGames) == status = "active" /\ Len(activeGames) > 1

(* status "active" with a game in the list *)
IsMatched(status, activeGames) == status = "active" /\ Len(activeGames) > 0

(* mutant: the last game of the list is returned *)
MatchedGameLast(activeGames) == activeGames[Len(activeGames)].game_id

(* activeGames[0].game_id *)
MatchedGame(activeGames) == activeGames[1].game_id

(* mutant: every status but "queued" cancels the wait *)
IsCancelledUnlessQueued(status) == status # "queued"

(* mutant: a cancelled queue goes unnoticed *)
IsCancelledNever(status) == FALSE

IsCancelled(status) == status = "idle"
IsPaused(status) == status = "paused"

QueueCancelledError == ClabcrawError("QUEUE_CANCELLED", FALSE, DEFAULT_RETRY_AFTER_MS)
MatchTimeoutError == ClabcrawError("MATCH_TIMEOUT", FALSE, DEFAULT_RETRY_AFTER_MS)

(* The head of the loop at time t: the next poll, or the throw after it.   *)
MatchLoopHead(o, t) ==
  IF BeforeDeadline(t, o.deadline)
    THEN /\ op' = [o EXCEPT !.pc = "getStatus"]
         /\ req' = GetStatusRequest
         /\ nreq' = nreq + 1
         /\ playLog' = Logged("getStatus")
    ELSE /\ op' = [o EXCEPT !.pc = "failed", !.val = MatchTimeoutError]
         /\ UNCHANGED <<client, req, nreq, playLog>>

(* mutant: the deadline is counted from the start of the clock *)
NewDeadlineFromStart(t, timeoutMs) == StartClock + timeoutMs

(* const deadline = Date.now() + timeoutMs *)
NewDeadline(t, timeoutMs) == t + timeoutMs

(* entry of waitForMatch at time t *)
EnterWaitForMatch(timeoutMs, pollMs, t) ==
  MatchLoopHead([NewOp("waitForMatch", "call") EXCEPT !.timeoutMs = timeoutMs,
                                                     !.pollMs = pollMs,
                                                     !.deadline = NewDeadline(t, timeoutMs),
                                                     !.calledAt = t,
                                                     !.since = nreq],
                t)

CallWaitForMatch ==
  /\ CallerFree
  /\ \E timeoutMs \in MatchTimeoutChoices, pollMs \in MatchPollChoices :
       EnterWaitForMatch(timeoutMs, pollMs, now)
  /\ UNCHANGED <<client, now, srv, wire, slept, faults>>

(* The caller catches a PausedError, waits err.retryAfterMs and calls      *)
(* waitForMatch again with the same options.                               *)
RecallWaitForMatch ==
  /\ op.name = "waitForMatch" /\ op.pc = "failed"
  /\ CodeOf(op.val) = "PAUSED"
  /\ now' = now + op.val.retryAfterMs
  /\ EnterWaitForMatch(op.timeoutMs, op.pollMs, now')
  /\ UNCHANGED <<client, srv, wire, slept, faults>>

(* getStatus settles: an error propagates, else the three tests *)
MatchStatusDone ==
  /\ op.name = "waitForMatch" /\ op.pc = "getStatus"
  /\ Settled
  /\ IF req.pc = "failed"
       THEN /\ op' = [op EXCEPT !.pc = "failed", !.val = req.val]
            /\ playLog' = playLog
       ELSE LET polled == getStatus(req.val) IN
            IF IsMatched(polled.status, polled.activeGames)
              THEN /\ op' = [op EXCEPT !.pc = "returned",
                                       !.val = MatchedGame(polled.activeGames)]
                   /\ playLog' = playLog
            ELSE IF IsCancelled(polled.status)
              THEN /\ op' = [op EXCEPT !.pc = "failed", !.val = QueueCancelledError]
                   /\ playLog' = playLog
            ELSE IF IsPaused(polled.status)
              THEN /\ op' = [op EXCEPT !.pc = "failed",
                                       !.val = PausedError(PAUSED_RETRY_AFTER_MS)]
                   /\ playLog' = playLog
            ELSE /\ op' = [op EXCEPT !.pc = "sleep"]
                 /\ playLog' = Logged("sleep")
  /\ req' = IdleRequest
  /\ UNCHANGED <<client, now, srv, wire, slept, nreq, faults>>

(* await sleep(pollMs), then the head of the loop *)
MatchSleep ==
  /\ op.name = "waitForMatch" /\ op.pc = "sleep"
  /\ now' = now + op.pollMs
  /\ MatchLoopHead(op, now')
  /\ UNCHANGED <<client, srv, wire, slept, faults>>

(* The server matches the queued agent, cancels its queue entry, or is     *)
(* paused; a pause lifts.                                                  *)
AgentAdvance ==
  /\ \/ srv = "queued" /\ srv' \in {"active", "idle", "paused"}
     \/ srv = "paused" /\ srv' = "queued"
  /\ UNCHANGED <<client, now, op, req, wire, slept, playLog, nreq, faults>>

(* One waitForMatch call by a client that has joined the queue. *)
InitMatch ==
  /\ client = NewGameClient
  /\ now = StartClock
  /\ srv = "queued"
  /\ op = NewOp("none", "idle")
  /\ req = IdleRequest
  /\ wire = <<>>
  /\ slept = <<>>
  /\ playLog = <<>>
  /\ nreq = 0
  /\ faults = MaxMatchFaults

NextMatch ==
  \/ CallWaitForMatch
  \/ Fetch
  \/ Sleep
  \/ MatchStatusDone
  \/ MatchSleep
  \/ AgentAdvance

SpecMatch == InitMatch /\ [][NextMatch]_vars

(* A waitForMatch call and the calls a caller makes again after a pause,   *)
(* up to MaxRematchWire transport calls in all.                            *)
BoundedFetch == Len(wire) < MaxRematchWire /\ Fetch

NextRematch ==
  \/ CallWaitForMatch
  \/ RecallWaitForMatch
  \/ BoundedFetch
  \/ Sleep
  \/ MatchStatusDone
  \/ MatchSleep
  \/ AgentAdvance

SpecRematch == InitMatch /\ [][NextRematch]_vars

(* One waitForMatch call on a network that may fail every attempt of a     *)
(* poll, up to MaxFaultyWire transport calls.                              *)
InitFaultyMatch ==
  /\ client = NewGameClient
  /\ now = StartClock
  /\ srv = "queued"
  /\ op = NewOp("none", "idle")
  /\ req = IdleRequest
  /\ wire = <<>>
  /\ slept = <<>>
  /\ playLog = <<>>
  /\ nreq = 0
  /\ faults = MaxFaults

FaultyFetch == Len(wire) < MaxFaultyWire /\ Fetch

NextFaultyMatch ==
  \/ CallWaitForMatch
  \/ FaultyFetch
  \/ Sleep
  \/ MatchStatusDone
  \/ MatchSleep
  \/ AgentAdvance

SpecFaultyMatch == InitFaultyMatch /\ [][NextFaultyMatch]_vars

----------------------------------------------------------------------------
(* lib/game.js: claim                                                       *)

(* The chain, seen through the two contract calls and the receipt: the     *)
(* claimable balance in atomic USDC units, the hash of a submitted         *)
(* transaction, the status of its receipt; any of the three calls may      *)
(* throw an error of the chain client instead.                             *)
Balances == {0, 1, 2500000}
TxHashes == {"0xaa", "0xbb"}
ReceiptStatuses == {"success", "reverted"}
ChainValue(v) == [kind |-> "chain", value |-> v]
ChainThrow == [kind |-> "chainError"]
ChainError == [name |-> "ContractFunctionExecutionError"]

(* lib/game.js: join and getStatus called by the agent, and a caller that  *)
(* makes one call of any of the methods                                    *)

JoinRequest == StartRequest("join", NoAuth, NoBody)

(* what join makes of the body: data.game_id || null, data.status,         *)
(* data.queue_position || null                                             *)
join(data) ==
  [gameId |-> Field(data, "game_id", Null),
   status |-> data.status,
   queuePosition |-> Field(data, "queue_position", Null)]

CallJoin ==
  /\ CallerFree
  /\ op' = NewOp("join", "request")
  /\ req' = JoinRequest
  /\ nreq' = nreq + 1
  /\ UNCHANGED <<client, now, srv, wire, slept, playLog, faults>>

CallGetStatus ==
  /\ CallerFree
  /\ op' = NewOp("getStatus", "request")
  /\ req' = GetStatusRequest
  /\ nreq' = nreq + 1
  /\ UNCHANGED <<client, now, srv, wire, slept, playLog, faults>>

(* _request settles and join or getStatus returns or throws to the caller *)
CallDone ==
  /\ op.name \in {"join", "getStatus"}
  /\ op.pc = "request"
  /\ Settled
  /\ op' = [op EXCEPT !.pc = req.pc,
                      !.val = IF req.pc = "failed" THEN req.val
                              ELSE IF op.name = "join" THEN join(req.val)
                              ELSE getStatus(req.val)]
  /\ UNCHANGED <<client, now, srv, req, wire, slept, playLog, nreq, faults>>

InitCalls ==
  /\ client = NewGameClient
  /\ now = StartClock
  /\ srv = "queued"
  /\ op = NewOp("none", "idle")
  /\ req = IdleRequest
  /\ wire = <<>>
  /\ slept = <<>>
  /\ playLog = <<>>
  /\ nreq = 0
  /\ faults = MaxCallFaults

CallsFetch == Len(wire) < MaxCallsWire /\ Fetch

NextCalls ==
  \/ CallJoin
  \/ CallGetStatus
  \/ CallGetState
  \/ CallSubmitAction
  \/ CallGetResult
  \/ CallWaitForMatch
  \/ CallPlayUntilDone
  \/ CallsFetch
  \/ Sleep
  \/ CallDone
  \/ ApiDone
  \/ MatchStatusDone
  \/ MatchSleep
  \/ PlayStateDone
  \/ PlayResultDone
  \/ PlayDecide
  \/ PlaySubmitDone
  \/ PlaySleep
  \/ AgentAdvance
  \/ ServerAdvance

SpecCalls == InitCalls /\ [][NextCalls]_vars

----------------------------------------------------------------------------
(* lib/game.js: claim, continued                                            *)

(* mutant: an empty balance is not told apart *)
IsNothingToClaimNever(balance) == FALSE

(* balance compared with 0n *)
IsNothingToClaim(balance) == balance = 0

(* receipt.status compared with "success" *)
IsClaimFailed(status) == status # "success"

NothingToClaimError == ClabcrawError("NOTHING_TO_CLAIM", FALSE, DEFAULT_RETRY_AFTER_MS)
ClaimFailedError == ClabcrawError("CLAIM_FAILED", FALSE, DEFAULT_RETRY_AFTER_MS)

(* (Number(balance) / 1_000_000).toFixed(2), in cents *)
amountUsdc(balance) == (balance + 5000) \div 10000

(* one call of the chain client by call number n of claim() *)
ChainCall(n, fn, out) ==
  Append(wire, [rid |-> n, api |-> fn, attempt |-> 0, headers |-> NoAuth,
                at |-> now, out |-> out])

(* claim() is called: the clients are built and the balance read is sent *)
CallClaim ==
  /\ \/ CallerFree
     \/ op.name = "claim" /\ op.pc \in {"returned", "failed"}
  /\ op.iter < MaxClaims
  /\ op' = [NewOp("claim", "readContract") EXCEPT !.iter = op.iter + 1]
  /\ UNCHANGED <<client, now, srv, req, wire, slept, playLog, nreq, faults>>

(* the balance read settles: the test against zero, else the transaction  *)
ClaimBalanceRead ==
  /\ op.name = "claim" /\ op.pc = "readContract"
  /\ \E out \in {ChainValue(b) : b \in Balances} \cup {ChainThrow} :
       /\ wire' = ChainCall(op.iter, "getClaimableBalance", out)
       /\ op' = IF out = ChainThrow
                  THEN [op EXCEPT !.pc = "failed", !.val = ChainError]
                ELSE IF IsNothingToClaim(out.value)
                  THEN [op EXCEPT !.pc = "failed", !.val = NothingToClaimError]
                ELSE [op EXCEPT !.pc = "writeContract", !.val = [balance |-> out.value]]
  /\ UNCHANGED <<client, now, srv, req, slept, playLog, nreq, faults>>

(* writeContract settles with the hash, and the receipt is awaited *)
ClaimWritten ==
  /\ op.name = "claim" /\ op.pc = "writeContract"
  /\ \E out \in {ChainValue(h) : h \in TxHashes} \cup {ChainThrow} :
       /\ wire' = ChainCall(op.iter, "claim", out)
       /\ op' = IF out = ChainThrow
                  THEN [op EXCEPT !.pc = "failed", !.val = ChainError]
                  ELSE [op EXCEPT !.pc = "waitForTransactionReceipt",
                                  !.val = [balance |-> op.val.balance, hash |-> out.value]]
  /\ UNCHANGED <<client, now, srv, req, slept, playLog, nreq, faults>>

(* the receipt arrives: the test of its status, and the result *)
ClaimReceipt ==
  /\ op.name = "claim" /\ op.pc = "waitForTransactionReceipt"
  /\ \E out \in {ChainValue(st) : st \in ReceiptStatuses} \cup {ChainThrow} :
       /\ wire' = ChainCall(op.iter, "receipt", out)
       /\ op' = IF out = ChainThrow
                  THEN [op EXCEPT !.pc = "failed", !.val = ChainError]
                ELSE IF IsClaimFailed(out.value)
                  THEN [op EXCEPT !.pc = "failed", !.val = ClaimFailedError]
                ELSE [op EXCEPT !.pc = "returned",
                                !.val = [txHash |-> op.val.hash,
                                         amount |-> op.val.balance,
                                         amountUsdc |-> amountUsdc(op.val.balance)]]
  /\ UNCHANGED <<client, now, srv, req, slept, playLog, nreq, faults>>

(* A caller that calls claim(), and again after each outcome. *)
NextClaim ==
  \/ CallClaim
  \/ ClaimBalanceRead
  \/ ClaimWritten
  \/ ClaimReceipt

SpecClaim == InitRequest /\ [][NextClaim]_vars

----------------------------------------------------------------------------
(* lib/errors.js: fromResponse on every kind of response                    *)

(* The error responses a server or a proxy can send: status, Retry-After   *)
(* header and body (not JSON; an object with an error text; the transient  *)
(* flag; the list of the games that are enabled).                          *)
ClassifyStatuses == {400, 401, 402, 403, 404, 409, 422, 429, 500, 502, 503, 504}
ClassifyHeaders ==
  {NoHeader, JunkHeader, IntHeader(-1), IntHeader(0), IntHeader(120),
   DateHeader(StartClock - 1000), DateHeader(StartClock + 7000)}
ErrorBody == [kind |-> "object", error |-> "Bad request"]
DisabledBody ==
  [kind |-> "object", error |-> "Game disabled", available_games |-> <<"poker">>]
ClassifyBodies == {Unparseable, ErrorBody, TransientBody, DisabledBody}

(* the gameId argument: left out, empty, or the id of the game *)
GameIdArg(id) == [kind |-> "string", val |-> id]
ClassifyGameIds == {Undefined, GameIdArg(""), GameIdArg(GameId)}

(* mutant: the id is used as given *)
OrUnknownAsGiven(gameId) == IF gameId.kind = "string" THEN gameId.val ELSE "undefined"

(* gameId || "unknown" *)
OrUnknown(gameId) ==
  IF gameId.kind = "string" /\ gameId.val # "" THEN gameId.val ELSE "unknown"

(* the body as read by fromResponse: response.json(), or the status text  *)
(* when that throws                                                        *)
ReadBody(response) ==
  IF response.body.kind = "object" THEN response.body
  ELSE [kind |-> "object", error |-> "statusText"]

(* the message of the error built by fromResponse *)
errorMessage(response, gameId) ==
  LET body == ReadBody(response)
      error == Field(body, "error", "")
      or(text, default) == IF text # "" THEN text ELSE default
  IN CASE response.status = 401 -> <<or(error, "Unauthorized")>>
       [] response.status = 402 -> <<or(error, "Payment required")>>
       [] response.status = 404 -> <<"Game not found: ", OrUnknown(gameId)>>
       [] response.status = 422 -> <<or(error, "Invalid action")>>
       [] response.status = 503 ->
            <<or(Field(body, "message", ""), or(error, "Platform is paused for maintenance"))>>
       [] OTHER -> <<or(error, "Unexpected HTTP")>>

NewClassify(response, gameId) ==
  [NewOp("fromResponse", "called") EXCEPT
     !.val = [response |-> response, gameId |-> gameId]]

(* fromResponse is given one response *)
InitClassify ==
  /\ client = NewGameClient
  /\ now = StartClock
  /\ srv = "active"
  /\ \E status \in ClassifyStatuses, header \in ClassifyHeaders,
        body \in ClassifyBodies, gameId \in ClassifyGameIds :
       op = NewClassify(Response(status, header, body), gameId)
  /\ req = IdleRequest
  /\ wire = <<>>
  /\ slept = <<>>
  /\ playLog = <<>>
  /\ nreq = 0
  /\ faults = 0

(* and returns the error *)
Classify ==
  /\ op.name = "fromResponse" /\ op.pc = "called"
  /\ op' = [op EXCEPT !.pc = "returned",
                      !.val = [response |-> op.val.response,
                               gameId |-> op.val.gameId,
                               err |-> fromResponse(op.val.response, op.val.gameId, now),
                               message |-> errorMessage(op.val.response, op.val.gameId)]]
  /\ UNCHANGED <<client, now, srv, req, wire, slept, playLog, nreq, faults>>

NextClassify == Classify

SpecClassify == InitClassify /\ [][NextClassify]_vars

----------------------------------------------------------------------------
(* lib/signer.js on every payload: two payloads with the same pairs, built *)
(* in any order, are signed for one game at one time.                      *)

(* the pairs an action payload is built from: { action, amount? }, and the *)
(* keys a and b                                                            *)
PayloadPairs ==
  {<<"action", "raise">>, <<"amount", 2>>, <<"a", 2>>, <<"b", 1>>}
MaxKeys == 3
PayloadsOf(pairs) ==
  {q \in [1..Cardinality(pairs) -> pairs] : \A i, j \in DOMAIN q : q[i] = q[j] => i = j}
SignGameIds == {GameId, OtherGameId}
SignTimes == {StartClock, StartClock + 1000, 12000}

InitSign ==
  /\ client = NewGameClient
  /\ now \in SignTimes
  /\ srv = "active"
  /\ \E pairs \in SUBSET PayloadPairs :
       /\ pairs # {} /\ Cardinality(pairs) <= MaxKeys
       /\ \E first \in PayloadsOf(pairs), second \in PayloadsOf(pairs),
             gameId \in SignGameIds :
            op = [NewOp("sign", "called") EXCEPT
                    !.val = [first |-> first, second |-> second, gameId |-> gameId]]
  /\ req = IdleRequest
  /\ wire = <<>>
  /\ slept = <<>>
  /\ playLog = <<>>
  /\ nreq = 0
  /\ faults = 0

(* both payloads are signed, and a state read of the same game *)
Sign ==
  /\ op.name = "sign" /\ op.pc = "called"
  /\ LET timestamp == Timestamp(now)
         signed(payload) ==
           [canonical |-> canonicalize(payload),
            message |-> buildMessage(op.val.gameId, payload, timestamp),
            signature |-> signAction(Account, op.val.gameId, payload, timestamp)]
     IN op' = [op EXCEPT !.pc = "returned",
                         !.val = [first |-> op.val.first, second |-> op.val.second,
                                  gameId |-> op.val.gameId, timestamp |-> timestamp,
                                  one |-> signed(op.val.first),
                                  two |-> signed(op.val.second),
                                  state |-> signState(Account, op.val.gameId, timestamp)]]
  /\ UNCHANGED <<client, now, srv, req, wire, slept, playLog, nreq, faults>>

NextSign == Sign

SpecSign == InitSign /\ [][NextSign]_vars

----------------------------------------------------------------------------
(* Reading the histories.                                                   *)

CallsOf(rid) == {i \in DOMAIN wire : wire[i].rid = rid}
SleepsOf(rid) == {k \in DOMAIN slept : slept[k].rid = rid}
Requests == 1..nreq

IsFault(i) == wire[i].out.kind = "fault"
IsResponse(i) == wire[i].out.kind = "response"
Status(i) == wire[i].out.status
IsSuccess(i) == IsResponse(i) /\ Status(i) >= 200 /\ Status(i) <= 299
Is304(i) == IsResponse(i) /\ Status(i) = 304
IsErrorResponse(i) == IsResponse(i) /\ ~IsSuccess(i) /\ ~Is304(i)
HasJsonBody(i) == IsResponse(i) /\ wire[i].out.body.kind # "unparseable"

(* the classification of the documented table, for the statuses injected *)
Retriable(i) == IsFault(i) \/ (IsErrorResponse(i) /\ Status(i) >= 500)
NonRetriable(i) == IsErrorResponse(i) /\ Status(i) < 500

IsLastCall(i) == \A j \in DOMAIN wire : wire[j].rid = wire[i].rid => j <= i
SleptAfter(i) ==
  \E k \in DOMAIN slept : slept[k].rid = wire[i].rid /\ slept[k].attempt = wire[i].attempt

----------------------------------------------------------------------------
(* C1: one call of _request makes at most 4 transport calls (1 + at most 3 *)
(* retries) and sleeps at most 3 times, whatever mix of connection faults  *)
(* and retriable classified errors it meets: both kinds are counted by the *)
(* one attempt counter, every sleep is the retry of one failed attempt,    *)
(* and once the 4th transport call is made the call has settled.           *)
C1_BoundedRetries ==
  \A r \in Requests :
    /\ Cardinality(CallsOf(r)) <= MAX_RETRIES + 1
    /\ Cardinality(SleepsOf(r)) <= MAX_RETRIES
    /\ Cardinality(SleepsOf(r)) = Cardinality({i \in CallsOf(r) : Retriable(i) /\ SleptAfter(i)})
    /\ \A i \in CallsOf(r) : wire[i].attempt = Cardinality({j \in CallsOf(r) : j < i})
    /\ (req.id = r /\ Cardinality(CallsOf(r)) = MAX_RETRIES + 1)
          => req.pc \in {"returned", "failed"}

(* a call that spent the whole budget on a mix of both kinds of failure *)
C1_Witness ==
  /\ req.pc = "failed"
  /\ Cardinality(CallsOf(req.id)) = 4
  /\ Cardinality(SleepsOf(req.id)) = 3
  /\ \E i, j \in CallsOf(req.id) : IsFault(i) /\ IsErrorResponse(j) /\ SleptAfter(j)

(* C2: a response classified non-retriable is raised at once: it is the    *)
(* last transport call of its _request, no sleep follows it, the call      *)
(* fails with that error, and the sleeps of the call are exactly those of  *)
(* the attempts before it, whatever the attempt index.                     *)
C2_NonRetriableRaisedAtOnce ==
  \A i \in DOMAIN wire :
    NonRetriable(i) =>
      /\ IsLastCall(i)
      /\ ~SleptAfter(i)
      /\ Cardinality(SleepsOf(wire[i].rid)) = wire[i].attempt
      /\ req.id = wire[i].rid =>
            /\ req.pc = "failed"
            /\ req.val.retriable = FALSE
            /\ req.val.code = IF Status(i) = 401 THEN "AUTH_ERROR"
                               ELSE IF Status(i) = 404 THEN "GAME_NOT_FOUND"
                               ELSE "INVALID_ACTION"

(* a rejected signature on the second attempt, with budget left *)
C2_Witness ==
  \E i \in DOMAIN wire :
    /\ NonRetriable(i) /\ Status(i) = 401
    /\ wire[i].attempt = 1
    /\ req.id = wire[i].rid /\ req.pc = "failed"

(* C3: a signature is single-use: no two transport calls, of any attempt   *)
(* of any call, carry the same x-signature value.                          *)
C3_SignatureNeverReplayed ==
  \A i, j \in DOMAIN wire :
    (i # j /\ wire[i].headers.signed /\ wire[j].headers.signed)
      => wire[i].headers.x_signature # wire[j].headers.x_signature

(* C4: every transport call of a signed request carries the timestamp of   *)
(* the wall clock at the moment that attempt is sent, and the signature    *)
(* over that timestamp.                                                    *)
C4_TimestampTakenAtSendTime ==
  \A i \in DOMAIN wire :
    wire[i].headers.signed =>
      /\ wire[i].headers.x_timestamp = Timestamp(wire[i].at)
      /\ wire[i].headers.x_signature.over[5] = Timestamp(wire[i].at)

(* C5: playUntilDone never fails with GAME_NOT_FOUND, at whichever step    *)
(* the server purges the finished session.                                 *)
C5_NeverObservesNotFound ==
  (op.name = "playUntilDone" /\ op.pc = "failed") => CodeOf(op.val) # "GAME_NOT_FOUND"

(* C6: when the state read of playUntilDone fails with GAME_NOT_FOUND the  *)
(* call does not fail with it: it fetches the historical result, invokes   *)
(* neither decide nor submitAction afterwards, and returns a finished      *)
(* snapshot; when the result was fetched, the snapshot says 'draw' for a   *)
(* drawn outcome, otherwise 'win' if the winner is the client's address    *)
(* up to letter case, and 'loss' if it is not.                             *)
StateReadNotFound ==
  \E i \in DOMAIN wire : wire[i].api = "state" /\ IsResponse(i) /\ Status(i) = 404

ResultFetched(r) ==
  \E i \in DOMAIN wire :
    wire[i].api = "result" /\ IsSuccess(i) /\ IsLastCall(i) /\ wire[i].out.body = r

SameHex(a, b) ==
  Len(a) = Len(b) /\ \A k \in 1..Len(a) : ToLowerChar(a[k]) = ToLowerChar(b[k])

C6_StaleFinishReconciled ==
  (op.name = "playUntilDone" /\ StateReadNotFound) =>
    /\ op.pc \in {"getState", "getResult", "returned"}
    /\ op.pc = "getState" => (req.pc = "failed" /\ req.val.code = "GAME_NOT_FOUND")
    /\ op.pc # "getState" =>
          /\ playLog[Len(playLog)] = "getResult"
          /\ Cardinality({k \in DOMAIN playLog : playLog[k] = "getResult"}) = 1
    /\ op.pc = "returned" =>
          /\ op.val.isFinished
          /\ \A r \in Results :
                ResultFetched(r) =>
                  op.val.result = IF r.outcome = "draw" THEN "draw"
                                  ELSE IF SameHex(r.winner, SelfAddress) THEN "win"
                                  ELSE "loss"

(* the server names the client as winner in lower case, after a move *)
C6_Witness ==
  /\ op.name = "playUntilDone" /\ op.pc = "returned" /\ StateReadNotFound
  /\ \E k \in DOMAIN playLog : playLog[k] = "submitAction"
  /\ \E r \in Results :
       /\ ResultFetched(r)
       /\ r.winner # SelfAddress /\ r.winner = toLowerCase(SelfAddress)
       /\ r.outcome # "draw"
  /\ op.val.result = "win"

(* C7: connection faults on the first k <= 3 attempts of a _request call   *)
(* do not surface: after k faults the call has slept k times and goes on,  *)
(* and if attempt k+1 then receives a 2xx response (with a JSON body) the  *)
(* call returns that response's body after exactly k+1 transport calls.    *)
OnlyFaultsBefore(i) ==
  \A j \in CallsOf(wire[i].rid) : j < i => IsFault(j)

C8_ExhaustedBudgetSurfaces ==
  \A r \in Requests :
    req.id = r =>
      /\ (Cardinality(CallsOf(r)) = 4 /\ \A i \in CallsOf(r) : Retriable(i)) =>
            /\ req.pc = "failed"
            /\ \A i \in CallsOf(r) :
                  IsLastCall(i) =>
                    /\ req.val.retriable
                    /\ req.val.code = IF IsFault(i) THEN "NETWORK_ERROR"
                                       ELSE IF Status(i) = 503 THEN "PAUSED"
                                       ELSE "HTTP_ERROR"
      /\ req.pc = "returned" =>
            \E i \in CallsOf(r) : IsLastCall(i) /\ (IsSuccess(i) \/ Is304(i))

(* the budget is spent on both kinds of failure and the last one is a pause *)
C8_Witness ==
  /\ op.pc = "failed" /\ CodeOf(op.val) = "PAUSED"
  /\ Cardinality(CallsOf(req.id)) = 4
  /\ \E i \in CallsOf(req.id) : IsFault(i)

(* The failed attempt a sleep follows, and the retryAfter its error was    *)
(* classified with (for a connection fault, that of NetworkError).         *)
AttemptOf(k) ==
  CHOOSE i \in DOMAIN wire : wire[i].rid = slept[k].rid /\ wire[i].attempt = slept[k].attempt

HeaderMs(h) ==
  IF h.kind = "int" THEN h.val * 1000 ELSE 5000

ClassifiedRetryAfter(i) ==
  IF IsFault(i) THEN 3000 ELSE HeaderMs(wire[i].out.retryAfter)

(* C9 as stated: before each retry the engine sleeps                       *)
(* max(classified retryAfter, base * 2^attempt, cap), base = 500 ms,       *)
(* cap = 10 000 ms, attempt = index of the attempt that just failed.       *)
C9_SleepIsMaxOfThree ==
  \A k \in DOMAIN slept :
    slept[k].ms = Max(Max(ClassifiedRetryAfter(AttemptOf(k)), 500 * Pow2(slept[k].attempt)),
                      10000)

(* C9 as amended: the delay the engine passes to sleep before each retry   *)
(* is min(base * 2^attempt, cap) after a connection fault, and after a     *)
(* retriable classified error the classified retryAfter when that is not   *)
(* zero, else min(base * 2^attempt, cap).                                  *)
C9_SleepIsRetryAfterOrBackoff ==
  \A k \in DOMAIN slept :
    LET i == AttemptOf(k)
        capped == Min(500 * Pow2(slept[k].attempt), 10000)
    IN slept[k].ms = IF IsFault(i) THEN capped
                     ELSE IF ClassifiedRetryAfter(i) # 0 THEN ClassifiedRetryAfter(i)
                     ELSE capped

(* one call whose three sleeps are all different cases: a fault (500), a   *)
(* server error with Retry-After: 2 (2000), a pause with Retry-After: 0    *)
(* on the third attempt (2000 by backoff)                                  *)
C9_Witness ==
  /\ Len(slept) = 3
  /\ IsFault(AttemptOf(1)) /\ slept[1].ms = 500
  /\ IsResponse(AttemptOf(2)) /\ Status(AttemptOf(2)) = 500 /\ slept[2].ms = 2000
  /\ IsResponse(AttemptOf(3)) /\ Status(AttemptOf(3)) = 503
  /\ wire[AttemptOf(3)].out.retryAfter = IntHeader(0)
  /\ slept[3].ms = 2000

(* C10: a 304 on any attempt makes _request return the unchanged sentinel  *)
(* at once: it is the last transport call, no sleep follows, the call does *)
(* not fail, and getState returns a snapshot with unchanged = true; so it  *)
(* does for a 2xx whose body is null, not an object, or flagged unchanged. *)
C10_NotModifiedShortCircuits ==
  \A i \in DOMAIN wire :
    /\ Is304(i) =>
         /\ IsLastCall(i)
         /\ ~SleptAfter(i)
         /\ req.id = wire[i].rid =>
               /\ req.pc = "returned"
               /\ req.val = [kind |-> "object", unchanged |-> TRUE, game_status |-> "none"]
    /\ (/\ op.name = "getState" /\ op.pc = "returned" /\ IsLastCall(i)
        /\ \/ Is304(i)
           \/ IsSuccess(i) /\ wire[i].out.body.kind # "object"
           \/ IsSuccess(i) /\ wire[i].out.body.kind = "object" /\ wire[i].out.body.unchanged)
         => op.val.unchanged = TRUE

(* a 304 on the third attempt, after two retried failures *)
C10_Witness ==
  /\ op.name = "getState" /\ op.pc = "returned" /\ op.val.unchanged
  /\ \E i \in DOMAIN wire : Is304(i) /\ wire[i].attempt = 2

----------------------------------------------------------------------------
(* C11: every failure of _request, and so of getState, submitAction and    *)
(* getResult, is a typed ClabcrawError: the error the caller catches has a *)
(* code, a boolean retriable and a numeric retryAfterMs, whatever the      *)
(* transport did (connection fault, any status, JSON body or not).         *)
IsClabcrawError(e) ==
  /\ {"code", "retriable", "retryAfterMs"} \subseteq DOMAIN e
  /\ e.retriable \in BOOLEAN
  /\ e.retryAfterMs \in Int

C11_EveryFailureTyped ==
  /\ req.pc = "failed" => IsClabcrawError(req.val)
  /\ op.pc = "failed" => IsClabcrawError(op.val)

----------------------------------------------------------------------------
(* C12: a 503 is classified PAUSED, retriable exactly when its body        *)
(* carries retryable = true; so a 503 without the flag (planned            *)
(* maintenance) is never followed by a sleep and a retry inside _request:  *)
(* it is the last transport call of its activation, which fails with it.   *)
HasTransientFlag(body) ==
  body.kind = "object" /\ "retryable" \in DOMAIN body /\ body.retryable = TRUE

C12_PauseRetriableOnlyIfFlagged ==
  \A i \in DOMAIN wire :
    (IsResponse(i) /\ Status(i) = 503) =>
      LET err == fromResponse(wire[i].out, GameId, wire[i].at) IN
      /\ err.code = "PAUSED"
      /\ err.retriable = HasTransientFlag(wire[i].out.body)
      /\ ~HasTransientFlag(wire[i].out.body) => (~SleptAfter(i) /\ IsLastCall(i))

----------------------------------------------------------------------------
(* Reading the history of a playUntilDone call.  The events since the last *)
(* "getState" event are those of the current iteration; once the read of   *)
(* the iteration has settled, the last transport call for the state is its *)
(* final attempt.                                                          *)
Playing == op.name = "playUntilDone"
ReadSettled == Playing /\ op.pc # "getState"

LastRead ==
  CHOOSE k \in DOMAIN playLog :
    playLog[k] = "getState" /\ \A l \in DOMAIN playLog : l > k => playLog[l] # "getState"
ThisIteration == SubSeq(playLog, LastRead, Len(playLog))

IsStateCall(i) == wire[i].api = "state"
LastStateCall ==
  CHOOSE i \in DOMAIN wire :
    IsStateCall(i) /\ \A j \in DOMAIN wire : j > i => ~IsStateCall(j)

(* what the response of transport call i makes the state read give *)
GaveUnchanged(i) ==
  \/ Is304(i)
  \/ /\ IsSuccess(i) /\ HasJsonBody(i)
     /\ \/ wire[i].out.body.kind # "object"
        \/ wire[i].out.body.unchanged
GaveFinished(i) ==
  /\ IsSuccess(i) /\ HasJsonBody(i)
  /\ wire[i].out.body.kind = "object" /\ ~wire[i].out.body.unchanged
  /\ wire[i].out.body.game_status \in {"finished", "complete"}
GaveSnapshot(i) ==
  /\ IsSuccess(i) /\ HasJsonBody(i)
  /\ ~GaveUnchanged(i) /\ ~GaveFinished(i)

(* C13: in playUntilDone, an iteration whose state read gives unchanged    *)
(* calls neither decide nor submitAction: it goes to sleep, and the next   *)
(* transport call, if any, is the first attempt of the next state read,    *)
(* pollMs later.  An iteration whose read gives a finished snapshot        *)
(* returns that snapshot at once: no decide, no submitAction, no sleep and *)
(* no further transport call.                                              *)
C13_UnchangedSleepsFinishedReturns ==
  /\ ReadSettled =>
       /\ GaveUnchanged(LastStateCall) =>
             /\ op.pc = "sleep"
             /\ ThisIteration = <<"getState", "sleep">>
       /\ GaveFinished(LastStateCall) =>
             /\ op.pc = "returned"
             /\ op.val = [unchanged |-> FALSE, isFinished |-> TRUE]
             /\ ThisIteration = <<"getState">>
             /\ LastStateCall = Len(wire)
  /\ \A i \in DOMAIN wire :
       (Playing /\ IsStateCall(i) /\ GaveUnchanged(i) /\ i < Len(wire)) =>
         /\ IsStateCall(i + 1)
         /\ wire[i + 1].rid = wire[i].rid + 1
         /\ wire[i + 1].attempt = 0
         /\ wire[i + 1].at = wire[i].at + op.pollMs

(* an unchanged read (a 304), the sleep, and a second read that returns    *)
(* the finished snapshot                                                   *)
C13_Witness ==
  /\ Playing /\ op.pc = "returned"
  /\ Len(wire) = 2
  /\ Is304(1) /\ GaveFinished(2)
  /\ wire[2].at = wire[1].at + DEFAULT_POLL_MS
  /\ playLog = <<"getState", "sleep", "getState">>

----------------------------------------------------------------------------
(* C14: in playUntilDone, an iteration whose state read gives a snapshot   *)
(* that is neither unchanged nor finished invokes decide once, with that   *)
(* snapshot; then submitAction once, with the move decide returned, if     *)
(* that move is not null, and not at all if it is null; then it sleeps,    *)
(* and the next state read starts pollMs after the last transport call of  *)
(* the iteration.  So every submit comes after a state read and a decide   *)
(* of its own iteration, and there are never more submits than decides.    *)
CountOf(ev) == Cardinality({k \in DOMAIN playLog : playLog[k] = ev})

C14_DecideOnceSubmitAtMostOnce ==
  /\ (ReadSettled /\ GaveSnapshot(LastStateCall)) =>
       /\ op.pc \in {"decide", "submitAction", "sleep", "failed"}
       /\ op.pc = "decide" =>
             /\ ThisIteration = <<"getState", "decide">>
             /\ op.val = [unchanged |-> FALSE, isFinished |-> FALSE]
       /\ op.pc = "submitAction" =>
             /\ ThisIteration = <<"getState", "decide", "submitAction">>
             /\ op.action \in Moves
             /\ req.api = "action" /\ req.body = op.action
       /\ op.pc = "sleep" =>
             IF op.action = NoMove
               THEN ThisIteration = <<"getState", "decide", "sleep">>
               ELSE ThisIteration = <<"getState", "decide", "submitAction", "sleep">>
       /\ op.pc = "failed" =>
             /\ ThisIteration = <<"getState", "decide", "submitAction">>
             /\ op.action \in Moves
  /\ Playing =>
       /\ CountOf("submitAction") <= CountOf("decide")
       /\ CountOf("decide") <= CountOf("getState")
       /\ Cardinality({wire[i].rid : i \in {j \in DOMAIN wire : wire[j].api = "action"}})
             <= CountOf("submitAction")
       /\ \A i \in DOMAIN wire :
             (wire[i].api = "action") =>
               \E j \in 1..(i - 1) :
                 /\ IsStateCall(j) /\ GaveSnapshot(j)
                 /\ wire[j].rid = wire[i].rid - 1
       /\ \A i \in DOMAIN wire :
             (i > 1 /\ IsStateCall(i) /\ wire[i].attempt = 0) =>
               wire[i].at = wire[i - 1].at + op.pollMs

(* a snapshot, a move submitted, the sleep; then a snapshot again, decide  *)
(* returns null, and the loop sleeps without a submit                      *)
C14_Witness ==
  /\ Playing /\ op.pc = "sleep" /\ op.action = NoMove
  /\ playLog = <<"getState", "decide", "submitAction", "sleep",
                 "getState", "decide", "sleep">>
  /\ Len(wire) = 3
  /\ GaveSnapshot(1) /\ wire[2].api = "action" /\ GaveSnapshot(3)
  /\ wire[3].at = wire[2].at + DEFAULT_POLL_MS

----------------------------------------------------------------------------
(* Reading the history of a waitForMatch call.  A poll is one call of      *)
(* getStatus, that is one activation of _request for the status; its       *)
(* first attempt is when the poll is started.                              *)
Matching == op.name = "waitForMatch"
CalledAt == op.deadline - op.timeoutMs

IsStatusCall(i) == wire[i].api = "status"
PollStarts == {i \in DOMAIN wire : IsStatusCall(i) /\ wire[i].attempt = 0}
StatusOf(i) == wire[i].out.body.status
GamesOf(i) ==
  IF "active_games" \in DOMAIN wire[i].out.body THEN wire[i].out.body.active_games ELSE <<>>
Answered(i) == IsStatusCall(i) /\ IsSuccess(i) /\ HasJsonBody(i)
SaidQueued(i) == Answered(i) /\ StatusOf(i) = "queued"
SaidMatched(i) == Answered(i) /\ StatusOf(i) = "active" /\ Len(GamesOf(i)) > 0
SaidIdle(i) == Answered(i) /\ StatusOf(i) = "idle"
TimedOut == Matching /\ op.pc = "failed" /\ CodeOf(op.val) = "MATCH_TIMEOUT"
(* a poll that is started and has not made its first transport call yet *)
PollPending == Matching /\ op.pc = "getStatus" /\ CallsOf(req.id) = {}

OnlyQueued == \A i \in DOMAIN wire : SaidQueued(i)

C17_TimeoutExactlyAtDeadline ==
  (TimedOut /\ OnlyQueued) =>
    /\ now - CalledAt >= op.timeoutMs
    /\ now - CalledAt <= op.timeoutMs

(* C18: when the server answers "queued" to k polls and then "active" with *)
(* a game, waitForMatch makes exactly k+1 status calls, one per poll, each *)
(* pollMs after the one before (k sleeps), none after the last, and        *)
(* returns the game id.                                                    *)
QueuedThenMatched(n) ==
  /\ n \in DOMAIN wire
  /\ \A i \in 1..(n - 1) : SaidQueued(i)
  /\ SaidMatched(n)

C18_QueuedPollsThenMatch ==
  \A n \in DOMAIN wire :
    (Matching /\ QueuedThenMatched(n)) =>
      /\ Len(wire) = n
      /\ \A i \in 1..n : wire[i].rid = i /\ wire[i].attempt = 0
      /\ \A i \in 1..(n - 1) : wire[i + 1].at = wire[i].at + op.pollMs
      /\ CountOf("getStatus") = n
      /\ CountOf("sleep") = n - 1
      /\ slept = <<>>
      /\ op.pc \in {"getStatus", "returned"}
      /\ op.pc = "getStatus" => req.pc = "returned"
      /\ op.pc = "returned" => op.val = GamesOf(n)[1].game_id

(* k = 3: three polls answered "queued", the fourth "active" with a game *)
C18_Witness ==
  /\ Matching /\ op.pc = "returned" /\ op.val = GameId
  /\ QueuedThenMatched(4)
  /\ Len(wire) = 4
  /\ CountOf("sleep") = 3
  /\ wire[4].at = wire[1].at + 3 * op.pollMs

(* C19: the first status poll that reports "active" with a non-empty list  *)
(* ends waitForMatch: the call returns the game id of the first entry of   *)
(* that list, and no transport call and no sleep follow the poll.          *)
C19_ReturnsFirstActiveGame ==
  \A i \in DOMAIN wire :
    (Matching /\ SaidMatched(i)) =>
      /\ i = Len(wire)
      /\ playLog[Len(playLog)] = "getStatus"
      /\ op.pc \in {"getStatus", "returned"}
      /\ op.pc = "getStatus" => (req.pc = "returned" /\ req.id = wire[i].rid)
      /\ op.pc = "returned" => op.val = wire[i].out.body.active_games[1].game_id

(* the list has two games, and the poll before was answered "queued" *)
C19_Witness ==
  /\ Matching /\ op.pc = "returned" /\ op.val = OtherGameId
  /\ Len(wire) = 2
  /\ SaidQueued(1) /\ SaidMatched(2)
  /\ GamesOf(2) = <<Game(OtherGameId), Game(GameId)>>

(* C20: the first status poll that reports "idle" makes waitForMatch fail  *)
(* with QUEUE_CANCELLED, not retriable; no transport call and no sleep     *)
(* follow the poll.                                                        *)
C20_IdleCancelsAtOnce ==
  \A i \in DOMAIN wire :
    (Matching /\ SaidIdle(i)) =>
      /\ i = Len(wire)
      /\ playLog[Len(playLog)] = "getStatus"
      /\ op.pc \in {"getStatus", "failed"}
      /\ op.pc = "getStatus" => (req.pc = "returned" /\ req.id = wire[i].rid)
      /\ op.pc = "failed" =>
            /\ CodeOf(op.val) = "QUEUE_CANCELLED"
            /\ op.val.retriable = FALSE

(* the queue entry is cancelled between the first poll and the second *)
C20_Witness ==
  /\ Matching /\ op.pc = "failed" /\ CodeOf(op.val) = "QUEUE_CANCELLED"
  /\ op.val.retriable = FALSE
  /\ Len(wire) = 2 /\ SaidQueued(1) /\ SaidIdle(2)
  /\ playLog = <<"getStatus", "sleep", "getStatus">>
  /\ now < op.deadline

----------------------------------------------------------------------------
(* A caller may call waitForMatch again after a pause: the transport calls *)
(* of the current call are those of the requests made since it began.      *)
InThisCall(i) == wire[i].rid > op.since
SaidPaused(i) == Answered(i) /\ StatusOf(i) = "paused"

(* C21: the first status poll that reports "paused" makes waitForMatch     *)
(* fail with PAUSED, retriable, retryAfterMs 30 000: no transport call and *)
(* no sleep of the call follow the poll.  When the caller has waited that  *)
(* long and calls again, the next transport call is the first poll of the  *)
(* new call, and the new call counts its deadline from its own call time.  *)
C21_PausedFailsRetriable ==
  Matching =>
    /\ \A i \in DOMAIN wire :
          (SaidPaused(i) /\ InThisCall(i)) =>
            /\ i = Len(wire)
            /\ playLog[Len(playLog)] = "getStatus"
            /\ op.pc \in {"getStatus", "failed"}
            /\ op.pc = "getStatus" => (req.pc = "returned" /\ req.id = wire[i].rid)
            /\ op.pc = "failed" =>
                  /\ CodeOf(op.val) = "PAUSED"
                  /\ op.val.retriable = TRUE
                  /\ op.val.retryAfterMs = 30000
    /\ \A i \in DOMAIN wire :
          (SaidPaused(i) /\ ~InThisCall(i)) =>
            /\ op.calledAt >= wire[i].at + 30000
            /\ i < Len(wire) =>
                  /\ wire[i + 1].rid = wire[i].rid + 1
                  /\ wire[i + 1].attempt = 0
                  /\ wire[i + 1].at = wire[i].at + 30000
    /\ op.deadline = op.calledAt + op.timeoutMs
    /\ \A i \in PollStarts :
          InThisCall(i) => (wire[i].at >= op.calledAt /\ wire[i].at < op.deadline)

(* a first call that failed on a paused poll, and the call made again     *)
(* 30 s later, which polls before its own deadline                         *)
C21_Witness ==
  /\ Matching /\ op.since = 1 /\ op.timeoutMs > 0
  /\ Len(wire) = 2
  /\ SaidPaused(1) /\ ~InThisCall(1)
  /\ InThisCall(2) /\ wire[2].at = wire[1].at + 30000
  /\ op.calledAt = wire[2].at
  /\ op.deadline = wire[2].at + op.timeoutMs

(* C22: a connection fault of a status poll is retried by _request: after  *)
(* each of the first three faulty attempts of a poll comes the back-off    *)
(* sleep and the poll goes on, whatever the clock says; a fault on the     *)
(* fourth attempt makes waitForMatch fail with NETWORK_ERROR.  The call    *)
(* never fails with MATCH_TIMEOUT on a fault: a time-out follows a poll    *)
(* that was answered, also when the deadline passed during the retries.    *)
C22_FaultIsNeverTimeout ==
  Matching =>
    /\ \A i \in DOMAIN wire :
          (IsStatusCall(i) /\ IsFault(i)) =>
            /\ wire[i].attempt < 3 =>
                  /\ \E k \in DOMAIN slept :
                        /\ slept[k].rid = wire[i].rid
                        /\ slept[k].attempt = wire[i].attempt
                        /\ slept[k].ms = 500 * Pow2(wire[i].attempt)
                  /\ i = Len(wire) => (op.pc = "getStatus" /\ req.pc \in {"sleep", "fetch"})
            /\ wire[i].attempt = 3 =>
                  /\ i = Len(wire)
                  /\ op.pc \in {"getStatus", "failed"}
                  /\ op.pc = "getStatus" => req.pc = "failed"
                  /\ op.pc = "failed" =>
                        /\ CodeOf(op.val) = "NETWORK_ERROR"
                        /\ op.val.retriable = TRUE
    /\ (TimedOut /\ wire # <<>>) =>
          /\ Answered(Len(wire))
          /\ playLog[Len(playLog)] = "sleep"

(* the deadline passes while the first poll is being retried, and the      *)
(* fourth attempt fails too                                                *)
C22_Witness ==
  /\ Matching /\ op.pc = "failed" /\ CodeOf(op.val) = "NETWORK_ERROR"
  /\ op.timeoutMs > 0
  /\ now >= op.deadline
  /\ Len(wire) = 4
  /\ \A i \in DOMAIN wire : wire[i].rid = 1
  /\ IsFault(1) /\ IsFault(4)

----------------------------------------------------------------------------
(* Reading the history of the calls of claim(): the chain calls of call    *)
(* number n, in order.                                                     *)
Claiming == op.name = "claim"
ChainCallsOf(n) == {i \in DOMAIN wire : wire[i].rid = n}
ChainCallsTo(n, fn) == {i \in ChainCallsOf(n) : wire[i].api = fn}
Gave(i) == wire[i].out.kind = "chain"
ClaimOver(n) == op.iter > n \/ (op.iter = n /\ op.pc \in {"returned", "failed"})

C24_ClaimOnceRevertRetriable ==
  Claiming =>
    \A n \in 1..op.iter :
      \A i \in ChainCallsTo(n, "getClaimableBalance") :
        (Gave(i) /\ wire[i].out.value # 0 /\ ClaimOver(n)) =>
          /\ Cardinality(ChainCallsTo(n, "claim")) = 1
          /\ \A w \in ChainCallsTo(n, "claim") :
                /\ w = i + 1
                /\ Gave(w) =>
                      /\ ChainCallsTo(n, "receipt") = {w + 1}
                      /\ (op.iter = n /\ Gave(w + 1)) =>
                            IF wire[w + 1].out.value = "success"
                              THEN /\ op.pc = "returned"
                                   /\ op.val.txHash = wire[w].out.value
                                   /\ op.val.amount = wire[i].out.value
                              ELSE /\ op.pc = "failed"
                                   /\ CodeOf(op.val) = "CLAIM_FAILED"
                                   /\ op.val.retriable = TRUE

----------------------------------------------------------------------------
(* Reading a classification: the response fromResponse was given and the   *)
(* error it returned.                                                      *)
Classified == op.name = "fromResponse" /\ op.pc = "returned"
Given == op.val.response
Err == op.val.err
HasGames(body) == body.kind = "object" /\ "available_games" \in DOMAIN body

(* C25: a 400 whose body has an available_games list becomes a             *)
(* GAME_DISABLED error, not retriable, carrying the list as                *)
(* availableGames; every other 400 becomes BAD_REQUEST, not retriable.     *)
C25_BadRequestSplit ==
  (Classified /\ Given.status = 400) =>
    /\ Err.retriable = FALSE
    /\ IF HasGames(Given.body)
         THEN /\ CodeOf(Err) = "GAME_DISABLED"
              /\ "availableGames" \in DOMAIN Err
              /\ Err.availableGames = Given.body.available_games
         ELSE CodeOf(Err) = "BAD_REQUEST"

(* C26: 401 gives AUTH_ERROR, 402 INSUFFICIENT_FUNDS, 404 GAME_NOT_FOUND   *)
(* with the requested game id in its message, or "unknown" when none was   *)
(* given, and 422 INVALID_ACTION; none of them is retriable, whatever the  *)
(* body and the header.                                                    *)
C26_SpecificStatuses ==
  (Classified /\ Given.status \in {401, 402, 404, 422}) =>
    /\ Err.retriable = FALSE
    /\ Given.status = 401 => CodeOf(Err) = "AUTH_ERROR"
    /\ Given.status = 402 => CodeOf(Err) = "INSUFFICIENT_FUNDS"
    /\ Given.status = 422 => CodeOf(Err) = "INVALID_ACTION"
    /\ Given.status = 404 =>
         /\ CodeOf(Err) = "GAME_NOT_FOUND"
         /\ op.val.message[2] =
              (IF op.val.gameId \in {Undefined, GameIdArg("")}
                 THEN "unknown" ELSE op.val.gameId.val)

(* a 404 classified without a game id, with a header and the flag set *)
C26_Witness ==
  /\ Classified /\ Given.status = 404
  /\ op.val.gameId = Undefined
  /\ Given.retryAfter = IntHeader(120) /\ Given.body = TransientBody
  /\ CodeOf(Err) = "GAME_NOT_FOUND" /\ op.val.message[2] = "unknown"

(* C27: every 5xx other than 503 gives HTTP_ERROR with retriable true,     *)
(* every 4xx other than 400, 401, 402, 404 and 422 gives HTTP_ERROR with   *)
(* retriable false.                                                        *)
C27_FallbackBySeries ==
  Classified =>
    /\ (Given.status \in 500..599 /\ Given.status # 503) =>
         (CodeOf(Err) = "HTTP_ERROR" /\ Err.retriable = TRUE)
    /\ (Given.status \in 400..499 /\ Given.status \notin {400, 401, 402, 404, 422}) =>
         (CodeOf(Err) = "HTTP_ERROR" /\ Err.retriable = FALSE)

(* a 500 classified as retriable *)
C27_Witness ==
  /\ Classified /\ Given.status = 500
  /\ CodeOf(Err) = "HTTP_ERROR" /\ Err.retriable = TRUE

StatedMs(header, t) ==
  CASE header.kind = "int"  -> header.val * 1000
    [] header.kind = "date" -> header.val - t
    [] OTHER                -> 5000

AmendedMs(header, t) ==
  IF header.kind = "date" /\ header.val < t THEN 0 ELSE StatedMs(header, t)

(* C28 as stated: the retryAfterMs of a classified error is n * 1000 for a *)
(* header of n seconds, the delta from now to the date for a header that   *)
(* is an HTTP-date, and 5000 when the header is absent or unparseable.     *)
C28_RetryAfterFromHeader ==
  Classified => Err.retryAfterMs = StatedMs(Given.retryAfter, now)

(* C28 amended: this holds of the PAUSED and HTTP_ERROR errors, with a     *)
(* date already past giving 0; the errors of 401, 402, 404 and 422 carry   *)
(* 5000 whatever the header.                                               *)
C28_RetryAfterFromHeaderAmended ==
  Classified =>
    IF Given.status \in {401, 402, 404, 422}
      THEN Err.retryAfterMs = 5000
      ELSE Err.retryAfterMs = AmendedMs(Given.retryAfter, now)

(* a 503 whose Retry-After date is already past *)
C28_Witness ==
  /\ Classified /\ Given.status = 503
  /\ Given.retryAfter = DateHeader(StartClock - 1000)
  /\ Err.retryAfterMs = 0

Usable(header) == header.kind \in {"int", "date"}

(* C29: a 503 without the transient flag and without a usable Retry-After  *)
(* header gets retryAfterMs = 30000; every other classified error without  *)
(* the header gets 5000.                                                   *)
C29_PlannedPauseThirtySeconds ==
  (Classified /\ ~Usable(Given.retryAfter)) =>
    IF Given.status = 503 /\ ~HasTransientFlag(Given.body)
      THEN Err.retryAfterMs = PAUSED_RETRY_AFTER_MS
      ELSE Err.retryAfterMs = DEFAULT_RETRY_AFTER_MS

----------------------------------------------------------------------------
(* Reading the history of one call of any method: the error _request made  *)
(* of answer i, and whether the call still waits for _request.             *)
Thrown(i) == fromResponse(wire[i].out, GameId, wire[i].at)
RaisedNonRetriable(i) == IsErrorResponse(i) /\ ~Thrown(i).retriable
AwaitsRequest == op.pc \in {"request", "getState", "getStatus", "submitAction", "getResult"}
NotYetHandled(i) ==
  /\ AwaitsRequest
  /\ req.id = wire[i].rid /\ req.pc = "failed" /\ req.val = Thrown(i)
ReachedCaller(i) == op.pc = "failed" /\ op.val = Thrown(i)
StaleFinish(i) ==
  /\ op.name = "playUntilDone" /\ wire[i].api = "state"
  /\ Thrown(i).code = "GAME_NOT_FOUND"
InFallback(i) == op.name = "playUntilDone" /\ wire[i].api = "result"
Methods == {"join", "getStatus", "getState", "submitAction", "waitForMatch", "playUntilDone"}

(* C30 as stated: a non-retriable error that _request raises inside join,  *)
(* getStatus, getState, submitAction, waitForMatch or playUntilDone, other *)
(* than GAME_NOT_FOUND from the state read of playUntilDone, reaches the   *)
(* caller as the same error: code, retriable and retryAfterMs as they were *)
(* set when the response was classified.                                   *)
C30_NonRetriableReachesCaller ==
  op.name \in Methods =>
    \A i \in DOMAIN wire :
      (RaisedNonRetriable(i) /\ ~StaleFinish(i)) =>
        (NotYetHandled(i) \/ ReachedCaller(i))

(* C30 amended: the same, other than GAME_NOT_FOUND from the state read of *)
(* playUntilDone and any error of the result fetch that follows it.        *)
C30_NonRetriableReachesCallerAmended ==
  op.name \in Methods =>
    \A i \in DOMAIN wire :
      (RaisedNonRetriable(i) /\ ~StaleFinish(i) /\ ~InFallback(i)) =>
        (NotYetHandled(i) \/ ReachedCaller(i))

(* join was refused the payment and the caller got INSUFFICIENT_FUNDS *)
C30_Witness ==
  /\ op.name = "join" /\ op.pc = "failed"
  /\ Len(wire) = 1 /\ IsResponse(1) /\ Status(1) = 402
  /\ op.val = InsufficientFundsError

----------------------------------------------------------------------------
(* Reading what the signer made of two payloads with the same pairs.       *)
Signed == op.name = "sign" /\ op.pc = "returned"
KeysOf(text) == [k \in 1..((Len(text) - 1) \div 4) |-> text[4 * k - 2]]
Ascending(keys) == \A i, j \in DOMAIN keys : i < j => KeyRank(keys[i]) < KeyRank(keys[j])
(* the tokens of the text but the values: none of them is whitespace *)
Compact(text) ==
  \A i \in DOMAIN text : i % 4 # 0 => text[i] \notin {" ", "\n", "\t"}

C32_MessageLayout ==
  Signed =>
    /\ op.val.one.message =
         <<op.val.gameId, ":", op.val.one.canonical, ":", op.val.timestamp>>
    /\ op.val.one.signature.over = op.val.one.message
    /\ op.val.state.over =
         <<op.val.gameId, ":", <<"{", "action", ":", "state", "}">>, ":", op.val.timestamp>>
    /\ op.val.state = signAction(Account, op.val.gameId, StatePayload, op.val.timestamp)
    /\ op.val.first = op.val.second => op.val.one.message = op.val.two.message

(* one payload signed twice for the other game *)
C32_Witness ==
  /\ Signed
  /\ op.val.gameId = OtherGameId
  /\ op.val.first = op.val.second /\ Len(op.val.first) = 2
  /\ op.val.one.message[1] = OtherGameId /\ op.val.one.message[5] = op.val.timestamp

----------------------------------------------------------------------------
(* Reading the headers of the attempts.                                    *)
SentHeaders(i) == wire[i].headers
IsSignedAttempt(i) ==
  /\ SentHeaders(i).signed
  /\ SentHeaders(i).x_signature # Null
  /\ SentHeaders(i).x_signer = Account.address
  /\ SentHeaders(i).x_signature.by = Account.address
  /\ SentHeaders(i).x_signature.over[1] = GameId
  /\ SentHeaders(i).x_signature.over[5] = SentHeaders(i).x_timestamp

(* C33: every attempt of getState and of submitAction carries x-signature, *)
(* x-timestamp and x-signer, x-signer being the address of the client and  *)
(* x-timestamp the timestamp inside the signed message; the attempts of    *)
(* getResult and of getStatus carry none of the three.                     *)
C33_SignedHeadersOnStateAndAction ==
  \A i \in DOMAIN wire :
    /\ wire[i].api \in {"state", "action"} => IsSignedAttempt(i)
    /\ wire[i].api \in {"result", "status"} => SentHeaders(i) = NoAuth

(* a state read that was retried, and the result fetch after it *)
C33_Witness ==
  /\ Len(wire) = 3
  /\ wire[1].api = "state" /\ wire[1].attempt = 0 /\ IsFault(1)
  /\ wire[2].api = "state" /\ wire[2].attempt = 1 /\ IsSignedAttempt(2)
  /\ wire[3].api = "result" /\ SentHeaders(3) = NoAuth

----------------------------------------------------------------------------
(* The suspensions of a call that are outstanding: the round trip or the   *)
(* retry sleep of _request, the poll sleep of the loop, the decide         *)
(* callback.                                                               *)
InLoop == op.name \in {"waitForMatch", "playUntilDone"}
RequestOutstanding == req.pc \in {"fetch", "sleep"}
Outstanding ==
  (IF req.pc = "fetch" THEN 1 ELSE 0) + (IF req.pc = "sleep" THEN 1 ELSE 0)
  + (IF op.pc = "sleep" THEN 1 ELSE 0) + (IF op.pc = "decide" THEN 1 ELSE 0)

(* C34: within a waitForMatch or playUntilDone call at most one suspension *)
(* is outstanding at a time: while a request is in flight or sleeping the  *)
(* loop does not move and no other request is issued, and while decide or  *)
(* the poll sleep is pending there is no request and no other timer.       *)
C34_OneSuspensionAtATime ==
  /\ [](InLoop => Outstanding <= 1)
  /\ [][(InLoop /\ RequestOutstanding) => (op' = op /\ nreq' = nreq)]_vars

(* decide is pending after an answered state read, and nothing else is *)
C34_Witness ==
  /\ op.name = "playUntilDone" /\ op.pc = "decide"
  /\ Len(wire) = 1 /\ IsSuccess(1)
  /\ Outstanding = 1 /\ ~RequestOutstanding

----------------------------------------------------------------------------
(* C35: no operation, and no retry inside _request, changes the client:    *)
(* its API URL, its account and the address derived from it are what the   *)
(* constructor made them, after any sequence of steps, whether the         *)
(* operation succeeded or failed.                                          *)
C35_ClientUnchanged ==
  /\ client = NewGameClient
  /\ Account.address = SelfAddress

(* an operation that failed after a retry *)
C35_Witness ==
  /\ op.pc = "failed" /\ slept # <<>> /\ Len(wire) >= 2
  /\ client = NewGameClient

----------------------------------------------------------------------------
(* Reading a playUntilDone call for its end.                               *)
ServerDone == srv \in {"finished", "purged"}
FailedOtherThan404 ==
  \E i \in DOMAIN wire :
    \/ IsFault(i)
    \/ IsErrorResponse(i) /\ Status(i) # 404
    \/ IsSuccess(i) /\ ~HasJsonBody(i)
ReturnedFinished ==
  op.name = "playUntilDone" /\ op.pc = "returned" /\ op.val.isFinished

(* C36: when every round trip, sleep and callback completes and no request *)
(* fails other than by 404, a playUntilDone call whose server reports the  *)
(* session as finished or as not found from some point on eventually       *)
(* returns a snapshot with isFinished = true.                              *)
C36_EventuallyReturnsFinished ==
  (op.name = "playUntilDone" /\ ServerDone /\ op.iter < MaxIter)
    ~> (ReturnedFinished \/ FailedOtherThan404)

----------------------------------------------------------------------------
(* Reading a playUntilDone call for what follows a submit.                 *)
SubmitAnswered(i) == wire[i].api = "action" /\ IsSuccess(i) /\ HasJsonBody(i)
EndedTheGame(i) ==
  /\ SubmitAnswered(i) /\ wire[i].out.body.kind = "object"
  /\ wire[i].out.body.game_status \in {"finished", "complete"}

(* C37: playUntilDone makes no use of the snapshot submitAction returns:   *)
(* after an answered submit, also one that ended the game, the loop sleeps *)
(* pollMs and reads the state again, and the call returns only after a     *)
(* state read that gave a finished state or through the result fetch of    *)
(* the GAME_NOT_FOUND fallback.                                            *)
C37_SubmitSnapshotUnused ==
  Playing =>
    /\ \A i \in DOMAIN wire :
         SubmitAnswered(i) =>
           IF i = Len(wire)
             THEN op.pc \in {"submitAction", "sleep", "getState"}
             ELSE /\ wire[i + 1].api = "state" /\ wire[i + 1].attempt = 0
                  /\ wire[i + 1].at = wire[i].at + op.pollMs
    /\ op.pc = "returned" =>
         /\ wire # <<>>
         /\ \/ /\ wire[Len(wire)].api = "state" /\ GaveFinished(Len(wire))
               /\ op.val = normalizeState(wire[Len(wire)].out.body)
            \/ wire[Len(wire)].api = "result" /\ StateReadNotFound

(* the move ended the game, and the call returned after one more read *)
C37_Witness ==
  /\ Playing /\ op.pc = "returned" /\ Len(wire) = 3
  /\ IsStateCall(1) /\ EndedTheGame(2) /\ IsStateCall(3) /\ GaveFinished(3)
  /\ wire[3].at = wire[2].at + op.pollMs

----------------------------------------------------------------------------
(* Reading a playUntilDone call for its result fetch.                      *)
IsResultCall(i) == wire[i].api = "result"
ResultFetchFailed ==
  /\ wire # <<>> /\ IsResultCall(Len(wire))
  /\ ~(IsSuccess(Len(wire)) /\ HasJsonBody(Len(wire)))
  /\ op.pc # "getResult"

(* C38: in the GAME_NOT_FOUND fallback of playUntilDone a result fetch     *)
(* that fails, with whatever error and after its own retries, does not     *)
(* fail the call: the error is swallowed and the call returns a snapshot   *)
(* with isFinished = true, result "unknown" and outcome "unknown".         *)
C38_ResultFailureGivesUnknown ==
  Playing =>
    /\ (\E i \in DOMAIN wire : IsResultCall(i)) => op.pc # "failed"
    /\ ResultFetchFailed =>
         /\ op.pc = "returned"
         /\ op.val.isFinished
         /\ op.val.result = "unknown"
         /\ op.val.outcome = "unknown"

(* the state read was answered 404 and the result fetch 401 *)
C38_Witness ==
  /\ Playing /\ op.pc = "returned" /\ Len(wire) = 2
  /\ IsStateCall(1) /\ Status(1) = 404
  /\ IsResultCall(2) /\ IsErrorResponse(2) /\ Status(2) = 401
  /\ op.val.result = "unknown"

----------------------------------------------------------------------------
(* Reading a waitForMatch call for the polls that decide nothing.          *)
SaysKeepWaiting(i) ==
  Answered(i) /\ ~SaidMatched(i) /\ ~SaidIdle(i) /\ ~SaidPaused(i)
RequestError(i) == IsStatusCall(i) /\ ~Answered(i)

(* C39: a status poll that reports "active" with no game, "queued" or a    *)
(* status that is not known makes waitForMatch sleep pollMs and poll       *)
(* again, neither return nor fail; the call ends only by a poll that       *)
(* reports a match, idle or paused, by an error of a request, or by        *)
(* MATCH_TIMEOUT.                                                          *)
C39_UndecidedPollsKeepWaiting ==
  Matching =>
    /\ \A i \in DOMAIN wire :
         SaysKeepWaiting(i) =>
           IF i < Len(wire)
             THEN /\ IsStatusCall(i + 1) /\ wire[i + 1].attempt = 0
                  /\ wire[i + 1].at = wire[i].at + op.pollMs
             ELSE /\ op.pc \in {"getStatus", "sleep", "failed"}
                  /\ op.pc = "failed" =>
                        (TimedOut /\ now = wire[i].at + op.pollMs)
    /\ op.pc = "returned" => (wire # <<>> /\ SaidMatched(Len(wire)))
    /\ op.pc = "failed" =>
         \/ TimedOut
         \/ /\ wire # <<>>
            /\ \/ SaidIdle(Len(wire)) /\ CodeOf(op.val) = "QUEUE_CANCELLED"
               \/ SaidPaused(Len(wire)) /\ CodeOf(op.val) = "PAUSED"
               \/ RequestError(Len(wire))

(* "active" without a game, then a status that is not known, then a match *)
C39_Witness ==
  /\ Matching /\ op.pc = "returned" /\ Len(wire) = 3
  /\ Answered(1) /\ StatusOf(1) = "active" /\ GamesOf(1) = <<>>
  /\ Answered(2) /\ StatusOf(2) = "matching"
  /\ SaidMatched(3)
  /\ wire[3].at = wire[1].at + 2 * op.pollMs

----------------------------------------------------------------------------
(* Reading the sleeps of _request against the answers before them.         *)
AnswerBefore(k) ==
  CHOOSE i \in DOMAIN wire :
    wire[i].rid = slept[k].rid /\ wire[i].attempt = slept[k].attempt
StatedDelay(k) ==
  LET i == AnswerBefore(k) IN
  IF IsFault(i) THEN backoff(slept[k].attempt)
  ELSE IF Thrown(i).retryAfterMs = 0 THEN backoff(slept[k].attempt)
  ELSE Thrown(i).retryAfterMs

(* C40: the delay _request sleeps before a retry is strictly positive: the *)
(* retryAfterMs of a retriable classified error, or backoff(attempt) =     *)
(* min(500 * 2^attempt, 10 000) when that is 0, and backoff(attempt) after *)
(* a connection fault.                                                     *)
C40_RetryDelayPositive ==
  \A k \in DOMAIN slept :
    /\ slept[k].ms = StatedDelay(k)
    /\ slept[k].ms = Min(500 * Pow2(slept[k].attempt), 10000)
         \/ slept[k].ms = Thrown(AnswerBefore(k)).retryAfterMs
    /\ slept[k].ms > 0

====
